---- MODULE Spec2Model ----
(***************************************************************************)
(* Model of the C++ semantic model and analysis core:                      *)
(*   cpp_parser.rs  run, parse_types, parse_methods, parse_function,       *)
(*                  check_integrity, find_template_instantiations          *)
(*   cpp_data.rs    ensure_explicit_destructors,                           *)
(*                  generate_methods_with_omitted_args,                    *)
(*                  add_inherited_methods, split_by_headers, post_process  *)
(*                                                                         *)
(* Option<T> is modelled as a sequence of length 0 (None) or 1 (Some).     *)
(* A method name is a sequence of tokens, so that prefix tests and         *)
(* concatenations of the source (starts_with, format!) are computed.       *)
(***************************************************************************)
EXTENDS Integers, Sequences, FiniteSets, TLC

VARIABLES
  config,                   \* CppParserConfig: header_name
  pc,                       \* position in run / post_process
  types,                    \* CppParser.types, then CppData.types
  methods,                  \* run's `methods` / `good_methods`, then CppData.methods
  template_instantiations,  \* CppData.template_instantiations
  todo,                     \* pending add_inherited_methods_from calls (call stack, top first)
  visited,                  \* the add_inherited_methods_from calls made for the current
                            \* element of all_type_names, in order
  log,                      \* the log::warning messages of parse_methods and
                            \* check_integrity, in order
  passes,                   \* log of the passes executed so far, in order
  headers,                  \* result of split_by_headers
  clang_type,               \* a front-end Type handed to parse_type
  parsed                    \* what parse_type returned for it

type_vars == <<clang_type, parsed>>

run_vars == <<config, pc, types, methods, template_instantiations, todo, visited, log,
              passes, headers>>

vars == <<run_vars, type_vars>>

(* Bounds of the model *)
MaxTypes == 3
MaxMethods == 2
\* add_inherited_methods_from calls followed for one element of all_type_names
MaxCalls == 6

None == <<>>
Some(x) == <<x>>
IsSome(o) == Len(o) > 0
Unwrap(o) == o[1]

Range(s) == {s[i] : i \in 1..Len(s)}

EmptyMap == [k \in {} |-> <<>>]

(***************************************************************************)
(* cpp_type: CppType = (is_const, indirection, base)                       *)
(***************************************************************************)
BaseOf(tag, name, targs, ret, args, level, index) ==
  [tag |-> tag, name |-> name, template_arguments |-> targs,
   return_type |-> ret, arguments |-> args,
   nested_level |-> level, index |-> index]

Void == BaseOf("Void", "", None, None, <<>>, 0, 0)
BuiltInNumeric(kind) == BaseOf("BuiltInNumeric", kind, None, None, <<>>, 0, 0)
Enum(name) == BaseOf("Enum", name, None, None, <<>>, 0, 0)
Class(name, template_arguments) ==
  BaseOf("Class", name, template_arguments, None, <<>>, 0, 0)
FunctionPointer(return_type, arguments) ==
  BaseOf("FunctionPointer", "", None, Some(return_type), arguments, 0, 0)
TemplateParameter(nested_level, index) ==
  BaseOf("TemplateParameter", "", None, None, <<>>, nested_level, index)

CppType(is_const, indirection, base) ==
  [is_const |-> is_const, indirection |-> indirection, base |-> base]

Plain(base) == CppType(FALSE, "None", base)

void == Plain(Void)

is_template_parameter(base) == base.tag = "TemplateParameter"

(***************************************************************************)
(* cpp_data: CppTypeData                                                   *)
(***************************************************************************)
ClassData(name, include_file, bases, fields, template_arguments) ==
  [name |-> name, include_file |-> include_file, kind |-> "Class",
   bases |-> bases, fields |-> fields, template_arguments |-> template_arguments]

EnumData(name, include_file) ==
  [name |-> name, include_file |-> include_file, kind |-> "Enum",
   bases |-> <<>>, fields |-> <<>>, template_arguments |-> None]

is_class(type1) == type1.kind = "Class"

default_template_parameters(type1) ==
  IF type1.kind = "Class" /\ IsSome(type1.template_arguments)
  THEN Some([num \in 1..Len(Unwrap(type1.template_arguments)) |->
               Plain(TemplateParameter(0, num - 1))])
  ELSE None

\* defined for classes only (the source panics on anything else)
default_class_type(type1) == Class(type1.name, default_template_parameters(type1))

inherits(type1, class_name) ==
  /\ type1.kind = "Class"
  /\ \E i \in 1..Len(type1.bases) :
       /\ type1.bases[i].base.tag = "Class"
       /\ type1.bases[i].base.name = class_name

\* self.types.iter().find(|x| x.name == name)
find_type(tps, name) ==
  IF \E i \in 1..Len(tps) : tps[i].name = name
  THEN Some(tps[CHOOSE i \in 1..Len(tps) :
                  /\ tps[i].name = name
                  /\ \A j \in 1..(i - 1) : tps[j].name # name])
  ELSE None

(***************************************************************************)
(* cpp_method: CppMethod                                                   *)
(***************************************************************************)
\* CppOperator: a plain operator, or Conversion(type)
Operator(kind) == [kind |-> kind, type |-> None]
Conversion(type) == [kind |-> "Conversion", type |-> Some(type)]

Argument(name, argument_type, has_default_value) ==
  [name |-> name, argument_type |-> argument_type,
   has_default_value |-> has_default_value]

is_destructor(method) ==
  /\ IsSome(method.class_membership)
  /\ Unwrap(method.class_membership).kind = "Destructor"

maybe_name(base) == IF base.tag = "Class" THEN Some(base.name) ELSE None

class_name(method) ==
  IF IsSome(method.class_membership)
  THEN maybe_name(Unwrap(method.class_membership).class_type)
  ELSE None

RECURSIVE FoldLeft(_, _, _)
FoldLeft(F(_, _), acc, s) ==
  IF s = <<>> THEN acc ELSE FoldLeft(F, F(acc, Head(s)), Tail(s))

RECURSIVE FlatMap(_, _)
FlatMap(F(_), s) == IF s = <<>> THEN <<>> ELSE F(Head(s)) \o FlatMap(F, Tail(s))

(***************************************************************************)
(* cpp_data: CppData passes                                                *)
(***************************************************************************)
RECURSIVE has_virtual_destructor(_, _, _)
has_virtual_destructor(ms, tps, name) ==
  IF \E i \in 1..Len(ms) : is_destructor(ms[i]) /\ class_name(ms[i]) = Some(name)
  THEN LET i == CHOOSE k \in 1..Len(ms) :
                  /\ is_destructor(ms[k]) /\ class_name(ms[k]) = Some(name)
                  /\ \A j \in 1..(k - 1) :
                       ~(is_destructor(ms[j]) /\ class_name(ms[j]) = Some(name))
       IN Unwrap(ms[i].class_membership).is_virtual
  ELSE LET type_info == find_type(tps, name)
       IN /\ IsSome(type_info)
          /\ Unwrap(type_info).kind = "Class"
          /\ \E b \in 1..Len(Unwrap(type_info).bases) :
               /\ Unwrap(type_info).bases[b].base.tag = "Class"
               /\ has_virtual_destructor(ms, tps, Unwrap(type_info).bases[b].base.name)

\* has_virtual_destructor(name) calls itself again for a class that is already on its
\* call path (cpp_data.rs:267-273 keeps no record of the classes it has entered), so
\* the call never returns: the recursion repeats until the stack is exhausted
RECURSIVE has_virtual_destructor_overflows(_, _, _, _)
has_virtual_destructor_overflows(ms, tps, name, path) ==
  IF \E i \in 1..Len(ms) : is_destructor(ms[i]) /\ class_name(ms[i]) = Some(name)
  THEN FALSE
  ELSE IF name \in path THEN TRUE
  ELSE LET type_info == find_type(tps, name)
       IN /\ IsSome(type_info)
          /\ Unwrap(type_info).kind = "Class"
          /\ \E b \in 1..Len(Unwrap(type_info).bases) :
               /\ Unwrap(type_info).bases[b].base.tag = "Class"
               /\ has_virtual_destructor_overflows(ms, tps,
                                                   Unwrap(type_info).bases[b].base.name,
                                                   path \cup {name})
               /\ \A j \in 1..(b - 1) :
                    \/ Unwrap(type_info).bases[j].base.tag # "Class"
                    \/ /\ ~has_virtual_destructor_overflows(
                              ms, tps, Unwrap(type_info).bases[j].base.name,
                              path \cup {name})
                       /\ ~has_virtual_destructor(ms, tps,
                                                  Unwrap(type_info).bases[j].base.name)

\* the destructor pushed at cpp_data.rs:91-110
implicit_destructor(type1, is_virtual) ==
  [name |-> <<"~", type1.name>>,
   class_membership |-> Some([class_type |-> default_class_type(type1),
                              is_virtual |-> is_virtual,
                              is_pure_virtual |-> FALSE,
                              is_const |-> FALSE,
                              is_static |-> FALSE,
                              visibility |-> "Public",
                              is_signal |-> FALSE,
                              kind |-> "Destructor"]),
   operator |-> None,
   return_type |-> void,
   arguments |-> <<>>,
   allows_variadic_arguments |-> FALSE,
   include_file |-> type1.include_file,
   origin_location |-> None,
   template_arguments |-> None]

\* cpp_data.rs:82-88
found_destructor(ms, name) ==
  \E i \in 1..Len(ms) : is_destructor(ms[i]) /\ class_name(ms[i]) = Some(name)

\* the body of the loop over self.types, from type number i on
RECURSIVE ensure_explicit_destructors_from(_, _, _)
ensure_explicit_destructors_from(tps, ms, i) ==
  IF i > Len(tps) THEN ms
  ELSE IF tps[i].kind = "Class" /\ ~found_destructor(ms, tps[i].name)
       THEN ensure_explicit_destructors_from(
              tps,
              Append(ms, implicit_destructor(tps[i],
                                             has_virtual_destructor(ms, tps, tps[i].name))),
              i + 1)
       ELSE ensure_explicit_destructors_from(tps, ms, i + 1)

ensure_explicit_destructors(tps, ms) == ensure_explicit_destructors_from(tps, ms, 1)

\* the loop over self.types reaches, from type number i on, a call of
\* has_virtual_destructor (cpp_data.rs:90) that never returns
RECURSIVE ensure_explicit_destructors_overflows(_, _, _)
ensure_explicit_destructors_overflows(tps, ms, i) ==
  IF i > Len(tps) THEN FALSE
  ELSE IF tps[i].kind = "Class" /\ ~found_destructor(ms, tps[i].name)
       THEN \/ has_virtual_destructor_overflows(ms, tps, tps[i].name, {})
            \/ ensure_explicit_destructors_overflows(
                 tps,
                 Append(ms, implicit_destructor(tps[i],
                                                has_virtual_destructor(ms, tps, tps[i].name))),
                 i + 1)
       ELSE ensure_explicit_destructors_overflows(tps, ms, i + 1)

last_has_default_value(method) ==
  /\ Len(method.arguments) > 0
  /\ method.arguments[Len(method.arguments)].has_default_value

pop_argument(method) ==
  [method EXCEPT !.arguments = SubSeq(method.arguments, 1, Len(method.arguments) - 1)]

\* the clones pushed for one method: cpp_data.rs:197-204
RECURSIVE omitted_args_clones_any(_)
omitted_args_clones_any(method) ==
  IF Len(method.arguments) > 0
  THEN <<pop_argument(method)>> \o omitted_args_clones_any(pop_argument(method))
  ELSE <<>>

omitted_args_clones_once(method) ==
  IF last_has_default_value(method) THEN <<pop_argument(method)>> ELSE <<>>

RECURSIVE omitted_args_clones(_)
omitted_args_clones(method) ==
  IF last_has_default_value(method)
  THEN <<pop_argument(method)>> \o omitted_args_clones(pop_argument(method))
  ELSE <<>>

generate_methods_with_omitted_args_in_place(ms) ==
  FlatMap(LAMBDA method : IF last_has_default_value(method)
                          THEN omitted_args_clones(method) ELSE <<method>>,
          ms)

generate_methods_with_omitted_args(ms) == ms \o FlatMap(omitted_args_clones, ms)

\* the filter that selects base_methods: cpp_data.rs:132-140
is_base_method_with_destructors(method, base_name) ==
  /\ IsSome(method.class_membership)
  /\ maybe_name(Unwrap(method.class_membership).class_type) = Some(base_name)
  /\ Unwrap(method.class_membership).kind # "Constructor"
  /\ method.operator # Some(Operator("Assignment"))

is_base_method(method, base_name) ==
  /\ IsSome(method.class_membership)
  /\ maybe_name(Unwrap(method.class_membership).class_type) = Some(base_name)
  /\ Unwrap(method.class_membership).kind # "Constructor"
  /\ Unwrap(method.class_membership).kind # "Destructor"
  /\ method.operator # Some(Operator("Assignment"))

\* the search that clears `ok`: cpp_data.rs:147-157
overridden_by_signature(ms, derived_name, base_class_method) ==
  \E i \in 1..Len(ms) :
    /\ class_name(ms[i]) = Some(derived_name)
    /\ ms[i].name = base_class_method.name
    /\ ms[i].arguments = base_class_method.arguments

overridden(ms, derived_name, base_class_method) ==
  \E i \in 1..Len(ms) :
    /\ class_name(ms[i]) = Some(derived_name)
    /\ ms[i].name = base_class_method.name

inherited_method_without_arguments(base_class_method, type1) ==
  [base_class_method EXCEPT
     !.class_membership = Some([Unwrap(@) EXCEPT !.class_type = default_class_type(type1)]),
     !.include_file = type1.include_file,
     !.origin_location = None,
     !.arguments = <<>>]

\* new_method: cpp_data.rs:159-166
inherited_method(base_class_method, type1) ==
  [base_class_method EXCEPT
     !.class_membership = Some([Unwrap(@) EXCEPT !.class_type = default_class_type(type1)]),
     !.include_file = type1.include_file,
     !.origin_location = None]

base_methods_of(ms, base_name) ==
  SelectSeq(ms, LAMBDA method : is_base_method(method, base_name))

\* new_methods at the end of the loop over self.types: cpp_data.rs:142-171
new_inherited_methods(tps, ms, base_name) ==
  FlatMap(LAMBDA type1 :
            IF inherits(type1, base_name)
            THEN FlatMap(LAMBDA base_class_method :
                           IF overridden(ms, type1.name, base_class_method)
                           THEN <<>>
                           ELSE <<inherited_method(base_class_method, type1)>>,
                         base_methods_of(ms, base_name))
            ELSE <<>>,
          tps)

\* derived_types at the end of the loop over self.types: cpp_data.rs:143-145
derived_types_of(tps, base_name) ==
  FlatMap(LAMBDA type1 : IF inherits(type1, base_name) THEN <<type1.name>> ELSE <<>>, tps)

Call(name, depth) == [name |-> name, depth |-> depth]

calls_without_recursion(derived_types, depth, rest) == rest

calls_after_first(derived_types, depth, rest) ==
  IF derived_types = <<>> THEN rest ELSE <<Call(derived_types[1], depth + 1)>> \o rest

calls_after_below(derived_types, depth, rest) ==
  IF depth < 2
  THEN [i \in 1..Len(derived_types) |-> Call(derived_types[i], depth + 1)] \o rest
  ELSE rest

\* the calls still to run after one add_inherited_methods_from(base_name) body:
\* first the recursive calls of cpp_data.rs:174-176, then the caller's remaining ones
calls_after(derived_types, depth, rest) ==
  [i \in 1..Len(derived_types) |-> Call(derived_types[i], depth + 1)] \o rest

\* all_type_names: cpp_data.rs:185
all_type_names(tps) == [i \in 1..Len(tps) |-> Call(tps[i].name, 0)]

\* CppData::default()
DefaultData == [types |-> <<>>, methods |-> <<>>, template_instantiations |-> EmptyMap]

\* result.contains_key / result.insert(key, CppData::default())
with_key(result, key) ==
  IF key \in DOMAIN result THEN result ELSE (key :> DefaultData) @@ result

\* cpp_data.rs:213-216
split_method(result, method) ==
  [with_key(result, method.include_file) EXCEPT
     ![method.include_file].methods = Append(@, method)]

split_type_without_instantiations(instantiations, result, tp) ==
  [with_key(result, tp.include_file) EXCEPT ![tp.include_file].types = Append(@, tp)]

\* cpp_data.rs:219-230
split_type(instantiations, result, tp) ==
  LET r1 == [with_key(result, tp.include_file) EXCEPT
               ![tp.include_file].types = Append(@, tp)]
  IN IF tp.kind = "Class" /\ tp.name \in DOMAIN instantiations
     THEN [r1 EXCEPT ![tp.include_file].template_instantiations =
                        (tp.name :> instantiations[tp.name]) @@ @]
     ELSE r1

split_by_headers(tps, ms, instantiations) ==
  FoldLeft(LAMBDA result, tp : split_type(instantiations, result, tp),
           FoldLeft(split_method, EmptyMap, ms),
           tps)

(***************************************************************************)
(* cpp_parser: integrity check and template instantiations                 *)
(***************************************************************************)
check_type_integrity_shallow(tps, type1) ==
  type1.base.tag \in {"Class", "Enum"} => IsSome(find_type(tps, type1.base.name))

RECURSIVE check_type_integrity(_, _)
check_type_integrity(tps, type1) ==
  CASE type1.base.tag = "Enum" -> IsSome(find_type(tps, type1.base.name))
    [] type1.base.tag = "Class" ->
         /\ IsSome(find_type(tps, type1.base.name))
         /\ IsSome(type1.base.template_arguments) =>
              \A i \in 1..Len(Unwrap(type1.base.template_arguments)) :
                check_type_integrity(tps, Unwrap(type1.base.template_arguments)[i])
    [] type1.base.tag = "FunctionPointer" ->
         /\ check_type_integrity(tps, Unwrap(type1.base.return_type))
         /\ \A i \in 1..Len(type1.base.arguments) :
              check_type_integrity(tps, type1.base.arguments[i])
    [] OTHER -> TRUE

is_good_method_names_only(tps, method) ==
  /\ method.return_type.base.tag \in {"Class", "Enum"} =>
       IsSome(find_type(tps, method.return_type.base.name))
  /\ \A i \in 1..Len(method.arguments) :
       method.arguments[i].argument_type.base.tag \in {"Class", "Enum"} =>
         IsSome(find_type(tps, method.arguments[i].argument_type.base.name))

\* the filter closure: cpp_parser.rs:1138-1151
is_good_method(tps, method) ==
  /\ check_type_integrity(tps, method.return_type)
  /\ \A i \in 1..Len(method.arguments) :
       check_type_integrity(tps, method.arguments[i].argument_type)

check_integrity(tps, ms) == SelectSeq(ms, LAMBDA method : is_good_method(tps, method))

Warning(message, name, type) == [message |-> message, name |-> name, type |-> type]

\* the log::warning calls of check_integrity: cpp_parser.rs:1141, 1146 and 1157
integrity_warnings(tps, ms) ==
  FlatMap(LAMBDA method : IF is_good_method(tps, method) THEN <<>>
                          ELSE <<Warning("Method is removed", method.name, None)>>,
          ms)
  \o FlatMap(LAMBDA t :
               IF t.kind = "Class"
               THEN FlatMap(LAMBDA base :
                              IF check_type_integrity(tps, base) THEN <<>>
                              ELSE <<Warning("base class type", <<t.name>>, Some(base))>>,
                            t.bases)
               ELSE <<>>,
             tps)

\* the test of cpp_parser.rs:1172
is_instantiation(template_arguments) ==
  \E i \in 1..Len(template_arguments) :
    ~is_template_parameter(template_arguments[i].base)

RECURSIVE check_type(_, _)
check_type(result, type1) ==
  IF /\ type1.base.tag = "Class"
     /\ IsSome(type1.base.template_arguments)
     /\ is_instantiation(Unwrap(type1.base.template_arguments))
  THEN LET name == type1.base.name
           template_arguments == Unwrap(type1.base.template_arguments)
           r1 == IF name \in DOMAIN result THEN result ELSE (name :> <<>>) @@ result
           r2 == IF template_arguments \in Range(r1[name])
                 THEN r1
                 ELSE [r1 EXCEPT ![name] = Append(@, template_arguments)]
       IN FoldLeft(check_type, r2, template_arguments)
  ELSE result

\* cpp_parser.rs:1186-1199
collect_instantiations(tps, ms) ==
  LET from_methods ==
        FoldLeft(LAMBDA result, m :
                   FoldLeft(LAMBDA r, arg : check_type(r, arg.argument_type),
                            check_type(result, m.return_type),
                            m.arguments),
                 EmptyMap, ms)
  IN FoldLeft(LAMBDA result, t :
                IF t.kind = "Class" THEN FoldLeft(check_type, result, t.bases) ELSE result,
              from_methods, tps)

instantiations_accepted_any(tps, result) == TRUE

\* no panic in the loop of cpp_parser.rs:1205-1233
instantiations_accepted(tps, result) ==
  \A name \in DOMAIN result :
    LET type_info == find_type(tps, name)
    IN /\ IsSome(type_info)
       /\ Unwrap(type_info).kind = "Class"
       /\ IsSome(Unwrap(type_info).template_arguments)
       /\ \A i \in 1..Len(result[name]) :
            Len(result[name][i]) = Len(Unwrap(Unwrap(type_info).template_arguments))

(***************************************************************************)
(* cpp_operator: the operators parse_function iterates over                *)
(***************************************************************************)
OperatorInfo(suffix, arguments_count, allows_variadic_arguments) ==
  [function_name_suffix |-> suffix, arguments_count |-> arguments_count,
   allows_variadic_arguments |-> allows_variadic_arguments]

all_operators == <<"Assignment", "Addition", "FunctionCall">>

info(operator) ==
  CASE operator = "Assignment" -> OperatorInfo(Some("="), 2, FALSE)
    [] operator = "Addition" -> OperatorInfo(Some("+"), 2, FALSE)
    [] operator = "FunctionCall" -> OperatorInfo(Some("()"), 0, TRUE)

(***************************************************************************)
(* cpp_parser: parse_type, parse_canonical_type, parse_unexposed_type      *)
(* A front-end Type carries what the front end answers for it.  A display  *)
(* name is a sequence of tokens: "const", a word, "*", "&", "<", ",", ">", *)
(* or "type-parameter" followed by two numerals.                           *)
(***************************************************************************)
Ok(x) == [tag |-> "Ok", value |-> Some(x)]
Err == [tag |-> "Err", value |-> None]
Panic == [tag |-> "Panic", value |-> None]

SpecificNumeric(name) == BaseOf("SpecificNumeric", name, None, None, <<>>, 0, 0)
PointerSizedInteger(name) == BaseOf("PointerSizedInteger", name, None, None, <<>>, 0, 0)

\* Type: get_kind, is_const_qualified, get_display_name, the display name of
\* get_canonical_type, get_declaration, get_template_argument_types,
\* get_pointee_type, get_result_type, get_argument_types
ClangType(kind, is_const, display_name, canonical_name, declaration, template_argument_types, pointee, result_type, argument_types) ==
  [kind |-> kind, is_const |-> is_const, display_name |-> display_name,
   canonical_name |-> canonical_name, declaration |-> declaration,
   template_argument_types |-> template_argument_types, pointee |-> pointee,
   result_type |-> result_type, argument_types |-> argument_types]

\* Entity of a declaration: get_kind, get_full_name, get_accessibility
Declaration(kind, name, accessibility) ==
  [kind |-> kind, name |-> name, accessibility |-> accessibility]

\* type1.get_canonical_type(): the canonical type is shown under its own name
get_canonical_type(type1) == [type1 EXCEPT !.display_name = type1.canonical_name]

\* the numerals of ^type-parameter-(\d+)-(\d+)$ and str::parse
numerals == <<"0", "1", "2">>
parse_numeral(token) == (CHOOSE k \in 1..Len(numerals) : numerals[k] = token) - 1

\* CppBuiltInNumericType::all() with to_cpp_code()
built_in_numeric_named(name) ==
  CASE name = <<"int">> -> Some("Int")
    [] name = <<"bool">> -> Some("Bool")
    [] OTHER -> None

\* s.split(",") on a token sequence
RECURSIVE split_by_comma(_)
split_by_comma(tokens) ==
  IF \E k \in 1..Len(tokens) : tokens[k] = ","
  THEN LET k == CHOOSE i \in 1..Len(tokens) :
                  tokens[i] = "," /\ \A j \in 1..(i - 1) : tokens[j] # ","
       IN <<SubSeq(tokens, 1, k - 1)>> \o split_by_comma(SubSeq(tokens, k + 1, Len(tokens)))
  ELSE <<tokens>>

is_name_token(token) ==
  token \notin {"const", "*", "&", "<", ">", ",", "type-parameter", " ", "=", "+", "()"}

\* template_class_regex ^([\w:]+)<(.+)>$
is_template_class_text(name) ==
  /\ Len(name) >= 4
  /\ is_name_token(name[1])
  /\ name[2] = "<"
  /\ name[Len(name)] = ">"

\* s.iter().position(|x| *x == name) for a one-word name
position(s, name) ==
  IF Len(name) = 1 /\ \E k \in 1..Len(s) : s[k] = name[1]
  THEN Some((CHOOSE k \in 1..Len(s) : s[k] = name[1] /\ \A j \in 1..(k - 1) : s[j] # name[1])
            - 1)
  ELSE None

class_parameter_level_zero(method_has_template_arguments) == 0

\* nested_level of a parameter of the context class: cpp_parser.rs:276
class_parameter_level(method_has_template_arguments) ==
  IF method_has_template_arguments THEN 1 ELSE 0

\* the first result that is not Ok, or Ok of the sequence of the values
collect_results(results) ==
  IF \E k \in 1..Len(results) : results[k].tag # "Ok"
  THEN [tag |-> results[CHOOSE k \in 1..Len(results) :
                          /\ results[k].tag # "Ok"
                          /\ \A j \in 1..(k - 1) : results[j].tag = "Ok"].tag,
        value |-> None]
  ELSE Ok([k \in 1..Len(results) |-> Unwrap(results[k].value)])

\* cpp_parser.rs:316-332
unexposed_indirection(outer, inner) ==
  CASE outer = "Ptr" /\ inner = "None" -> Some("Ptr")
    [] outer = "Ptr" /\ inner = "Ptr" -> Some("PtrPtr")
    [] outer = "Ref" /\ inner = "None" -> Some("Ref")
    [] outer = "Ref" /\ inner = "Ptr" -> Some("PtrRef")
    [] OTHER -> None

RECURSIVE parse_unexposed_type(_, _, _, _, _)
parse_unexposed_type(tps, type1, string, context_class, context_method) ==
  LET raw == IF IsSome(type1) THEN Unwrap(type1).display_name ELSE string
      is_const_in_name == raw # <<>> /\ Head(raw) = "const"
      name == IF is_const_in_name THEN Tail(raw) ELSE raw
      is_const == IF IsSome(type1) THEN Unwrap(type1).is_const ELSE is_const_in_name
      parse_arguments(text) ==
        collect_results([k \in 1..Len(split_by_comma(text)) |->
                           parse_unexposed_type(tps, None, split_by_comma(text)[k],
                                                context_class, context_method)])
      method_arguments == IF IsSome(context_method)
                          THEN Unwrap(context_method).template_parameters
                          ELSE <<>>
      method_has_template_arguments == method_arguments # <<>>
      class_arguments == IF IsSome(context_class)
                         THEN Unwrap(context_class).template_parameters
                         ELSE <<>>
      has_ptr == Len(name) >= 2 /\ name[Len(name)] = "*"
      name1 == IF has_ptr THEN SubSeq(name, 1, Len(name) - 1) ELSE name
      has_ref == Len(name1) >= 2 /\ name1[Len(name1)] = "&"
      remaining_name == IF has_ref THEN SubSeq(name1, 1, Len(name1) - 1) ELSE name1
      indirection == IF has_ref THEN "Ref" ELSE IF has_ptr THEN "Ptr" ELSE "None"
      subtype == parse_unexposed_type(tps, None, remaining_name,
                                      context_class, context_method)
      arguments_text(text) == SubSeq(text, 3, Len(text) - 1)
  IN IF IsSome(type1) /\ Unwrap(type1).is_const # is_const_in_name THEN Panic
     ELSE IF /\ IsSome(type1)
             /\ IsSome(Unwrap(type1).declaration)
             /\ Unwrap(Unwrap(type1).declaration).kind
                  \in {"ClassDecl", "ClassTemplate", "StructDecl"}
     THEN LET declaration == Unwrap(Unwrap(type1).declaration)
          IN IF declaration.accessibility # "Public" THEN Err
             ELSE IF is_template_class_text(name)
             THEN LET arg_types == parse_arguments(arguments_text(name))
                  IN IF arg_types.tag = "Ok"
                     THEN Ok(CppType(is_const, "None",
                                     Class(declaration.name, arg_types.value)))
                     ELSE arg_types
             ELSE Err
     ELSE IF Len(name) = 3 /\ name[1] = "type-parameter"
             /\ name[2] \in Range(numerals) /\ name[3] \in Range(numerals)
     THEN Ok(CppType(is_const, "None",
                     TemplateParameter(parse_numeral(name[2]), parse_numeral(name[3]))))
     ELSE IF IsSome(position(method_arguments, name))
     THEN Ok(CppType(is_const, "None",
                     TemplateParameter(0, Unwrap(position(method_arguments, name)))))
     ELSE IF IsSome(position(class_arguments, name))
     THEN Ok(CppType(is_const, "None",
                     TemplateParameter(class_parameter_level(method_has_template_arguments),
                                       Unwrap(position(class_arguments, name)))))
     ELSE IF remaining_name = <<"void">> THEN Ok(CppType(is_const, indirection, Void))
     ELSE IF IsSome(built_in_numeric_named(remaining_name))
     THEN Ok(CppType(is_const, indirection,
                     BuiltInNumeric(Unwrap(built_in_numeric_named(remaining_name)))))
     ELSE IF indirection \in {"Ptr", "Ref"} /\ subtype.tag = "Ok"
     THEN LET lifted == unexposed_indirection(indirection,
                                              Unwrap(subtype.value).indirection)
          IN IF IsSome(lifted)
             THEN Ok(CppType(is_const, Unwrap(lifted), Unwrap(subtype.value).base))
             ELSE Err
     ELSE IF Len(remaining_name) = 1 /\ IsSome(find_type(tps, remaining_name[1]))
     THEN Ok(CppType(is_const, indirection,
                     IF Unwrap(find_type(tps, remaining_name[1])).kind = "Enum"
                     THEN Enum(remaining_name[1])
                     ELSE Class(remaining_name[1], None)))
     ELSE IF is_template_class_text(remaining_name)
     THEN IF /\ IsSome(find_type(tps, remaining_name[1]))
             /\ \E k \in 1..Len(tps) : tps[k].name = remaining_name[1] /\ is_class(tps[k])
          THEN LET arg_types == parse_arguments(arguments_text(remaining_name))
               IN IF arg_types.tag = "Ok"
                  THEN Ok(CppType(is_const, indirection,
                                  Class(remaining_name[1], arg_types.value)))
                  ELSE arg_types
          ELSE Err
     ELSE Err

lifted_without_const(result, indirection) ==
  [result EXCEPT !.indirection = indirection, !.is_const = FALSE]

\* CppType { indirection: new_indirection, ..result }: cpp_parser.rs:676
lifted(result, indirection) == [result EXCEPT !.indirection = indirection]

\* new_indirection, None for Err: cpp_parser.rs:639-674
new_indirection(kind, result) ==
  CASE kind = "Pointer" ->
         (CASE result.indirection = "None" ->
                 IF result.base.tag = "FunctionPointer" THEN Some("None") ELSE Some("Ptr")
            [] result.indirection = "Ptr" -> Some("PtrPtr")
            [] OTHER -> None)
    [] kind = "LValueReference" ->
         (CASE result.indirection = "None" -> Some("Ref")
            [] result.indirection = "Ptr" -> Some("PtrRef")
            [] OTHER -> None)
    [] kind = "RValueReference" ->
         IF result.indirection = "None" THEN Some("Ref") ELSE None

\* the display names that cpp_parser.rs:395-466 replaces
specific_numeric_named(name) ==
  CASE name \in {<<"int8_t">>, <<"qint8">>, <<"uint8_t">>, <<"quint8">>,
                 <<"int16_t">>, <<"qint16">>, <<"uint16_t">>, <<"quint16">>,
                 <<"int32_t">>, <<"qint32">>, <<"uint32_t">>, <<"quint32">>,
                 <<"int64_t">>, <<"qint64">>, <<"qlonglong">>,
                 <<"uint64_t">>, <<"quint64">>, <<"qulonglong">>} ->
         Some(SpecificNumeric(name[1]))
    [] name \in {<<"qintptr">>, <<"qptrdiff">>, <<"QList_difference_type">>,
                 <<"quintptr">>} ->
         Some(PointerSizedInteger(name[1]))
    [] OTHER -> None

built_in_kinds == {"Bool", "Int"}

RECURSIVE parse_type(_, _, _, _)
RECURSIVE parse_canonical_type(_, _, _, _)

\* cpp_parser.rs:481-691
parse_canonical_type(tps, type1, context_class, context_method) ==
  LET is_const == type1.is_const
  IN CASE type1.kind = "Void" -> Ok(CppType(is_const, "None", Void))
       [] type1.kind \in built_in_kinds ->
            Ok(CppType(is_const, "None", BuiltInNumeric(type1.kind)))
       [] type1.kind = "Enum" ->
            Ok(CppType(is_const, "None", Enum(Unwrap(type1.declaration).name)))
       [] type1.kind = "Record" ->
            LET declaration == Unwrap(type1.declaration)
                arg_types == Unwrap(type1.template_argument_types)
                r == collect_results(
                       [k \in 1..Len(arg_types) |->
                          IF IsSome(arg_types[k])
                          THEN parse_type(tps, Unwrap(arg_types[k]),
                                          context_class, context_method)
                          ELSE Err])
            IN IF declaration.accessibility # "Public" THEN Err
               ELSE IF ~IsSome(type1.template_argument_types)
               THEN Ok(CppType(is_const, "None", Class(declaration.name, None)))
               ELSE IF arg_types = <<>> THEN Panic
               ELSE IF r.tag = "Ok"
               THEN Ok(CppType(is_const, "None", Class(declaration.name, r.value)))
               ELSE r
       [] type1.kind = "FunctionPrototype" ->
            LET arguments == collect_results(
                               [k \in 1..Len(type1.argument_types) |->
                                  parse_type(tps, type1.argument_types[k],
                                             context_class, context_method)])
                return_type == parse_type(tps, Unwrap(type1.result_type),
                                          context_class, context_method)
            IN IF arguments.tag # "Ok" THEN arguments
               ELSE IF return_type.tag # "Ok" THEN return_type
               ELSE Ok(CppType(is_const, "None",
                               FunctionPointer(Unwrap(return_type.value),
                                               Unwrap(arguments.value))))
       [] type1.kind \in {"Pointer", "LValueReference", "RValueReference"} ->
            IF IsSome(type1.pointee)
            THEN LET result == parse_type(tps, Unwrap(type1.pointee),
                                          context_class, context_method)
                 IN IF result.tag = "Ok"
                    THEN LET indirection == new_indirection(type1.kind,
                                                            Unwrap(result.value))
                         IN IF IsSome(indirection)
                            THEN Ok(lifted(Unwrap(result.value), Unwrap(indirection)))
                            ELSE Err
                    ELSE result
            ELSE Err
       [] type1.kind = "Unexposed" ->
            parse_unexposed_type(tps, Some(type1), <<>>, context_class, context_method)
       [] OTHER -> Err

\* cpp_parser.rs:382-478
parse_type(tps, type1, context_class, context_method) ==
  LET parsed_type == parse_canonical_type(tps, get_canonical_type(type1),
                                          context_class, context_method)
      display_name == type1.display_name
      name == IF display_name # <<>> /\ Head(display_name) = "const"
              THEN Tail(display_name) ELSE display_name
  IN IF /\ parsed_type.tag = "Ok"
        /\ Unwrap(parsed_type.value).base.tag = "BuiltInNumeric"
        /\ Unwrap(parsed_type.value).indirection = "None"
        /\ IsSome(specific_numeric_named(name))
     THEN Ok([Unwrap(parsed_type.value) EXCEPT !.base = Unwrap(specific_numeric_named(name))])
     ELSE parsed_type

(***************************************************************************)
(* cpp_parser: parse_function                                              *)
(* A function entity carries what the front end answers for it; the types  *)
(* of its signature are given as the results of parse_type (None = Err).   *)
(***************************************************************************)
\* cpp_parser.rs:956-982 on the presumed file path of an entity
entity_include_file(path) == IF path = <<>> THEN None ELSE Some(path[Len(path)])

is_word_token(token) == token \notin {"::", " ", "<int>", "=", "+", "()"}

\* str::trim on a token sequence
RECURSIVE trim(_)
trim(tokens) ==
  IF tokens # <<>> /\ Head(tokens) = " " THEN trim(Tail(tokens))
  ELSE IF tokens # <<>> /\ tokens[Len(tokens)] = " "
       THEN trim(SubSeq(tokens, 1, Len(tokens) - 1))
       ELSE tokens

\* cpp_parser.rs:772-779
fix_malformed_name(name) ==
  IF /\ "<int>" \in Range(name)
     /\ Len(name) >= 2
     /\ name[Len(name)] = "<int>"
     /\ \A i \in 1..(Len(name) - 1) : is_word_token(name[i])
  THEN SubSeq(name, 1, Len(name) - 1)
  ELSE name

unqualified_name(entity) == fix_malformed_name(entity.name)

\* cpp_parser.rs:780-784
qualified_name(entity) ==
  IF entity.parent.kind = "Namespace"
  THEN <<entity.parent.name, "::">> \o fix_malformed_name(entity.name)
  ELSE fix_malformed_name(entity.name)

\* the operators whose suffix equals name_suffix, in the order of CppOperator::all()
operators_named(name_suffix) ==
  SelectSeq(all_operators,
            LAMBDA operator : /\ IsSome(info(operator).function_name_suffix)
                              /\ <<Unwrap(info(operator).function_name_suffix)>> = name_suffix)

recognize_operator_any_arity(name, real_arguments_count) ==
  IF name # <<>> /\ name[1] = "operator"
  THEN LET candidates == operators_named(trim(Tail(name)))
       IN [matches |-> candidates # <<>>,
           operator |-> IF candidates # <<>> THEN Some(Operator(candidates[1])) ELSE None]
  ELSE [matches |-> FALSE, operator |-> None]

\* cpp_parser.rs:789-808: [matches |-> name_matches, operator |-> method_operator]
recognize_operator(name, real_arguments_count) ==
  IF name # <<>> /\ name[1] = "operator"
  THEN LET candidates == operators_named(trim(Tail(name)))
           fitting == SelectSeq(candidates,
                                LAMBDA operator :
                                  \/ info(operator).allows_variadic_arguments
                                  \/ info(operator).arguments_count = real_arguments_count)
       IN [matches |-> candidates # <<>>,
           operator |-> IF fitting # <<>> THEN Some(Operator(fitting[1])) ELSE None]
  ELSE [matches |-> FALSE, operator |-> None]

default_argument_name(argument_number) == <<"arg1", "arg2", "arg3", "arg4">>[argument_number]

\* cpp_parser.rs:825-850 with the lookup of 843-846
class_membership_of(tps, entity) ==
  Some([kind |-> CASE entity.kind = "Constructor" -> "Constructor"
                   [] entity.kind = "Destructor" -> "Destructor"
                   [] OTHER -> "Regular",
        is_virtual |-> entity.is_virtual,
        is_pure_virtual |-> entity.is_pure_virtual,
        is_const |-> entity.is_const,
        is_static |-> entity.is_static,
        visibility |-> entity.accessibility,
        is_signal |-> FALSE,
        class_type |-> default_class_type(Unwrap(find_type(tps, entity.parent.name)))])

\* cpp_parser.rs:693-858, where conversion_type is what parse_unexposed_type answers
\* at cpp_parser.rs:811 for the name behind "operator "
parse_function_with(tps, entity, conversion_type) ==
  LET has_class == entity.parent.kind = "Class"
      name == qualified_name(entity)
      has_this_argument == has_class /\ ~entity.is_static
      real_arguments_count == Len(entity.arguments) + (IF has_this_argument THEN 1 ELSE 0)
      recognized == recognize_operator(name, real_arguments_count)
      is_conversion == /\ ~IsSome(recognized.operator)
                       /\ Len(name) >= 2 /\ name[1] = "operator" /\ name[2] = " "
  IN IF ~IsSome(entity.return_type) THEN Err
     ELSE IF entity.kind = "FunctionTemplate" /\ entity.non_type_template_parameter THEN Err
     ELSE IF \E i \in 1..Len(entity.arguments) : ~IsSome(entity.arguments[i].type) THEN Err
     ELSE IF ~IsSome(recognized.operator) /\ recognized.matches THEN Err
     ELSE IF is_conversion /\ conversion_type.tag # "Ok" THEN Panic
     ELSE IF has_class /\ ~IsSome(find_type(tps, entity.parent.name)) THEN Err
     ELSE IF ~IsSome(entity_include_file(entity.path)) THEN Panic
     ELSE Ok([name |-> name,
              operator |-> IF is_conversion
                           THEN Some(Conversion(Unwrap(conversion_type.value)))
                           ELSE recognized.operator,
              class_membership |-> IF has_class THEN class_membership_of(tps, entity)
                                   ELSE None,
              arguments |-> [i \in 1..Len(entity.arguments) |->
                               Argument(IF IsSome(entity.arguments[i].name)
                                        THEN Unwrap(entity.arguments[i].name)
                                        ELSE default_argument_name(i),
                                        Unwrap(entity.arguments[i].type),
                                        entity.arguments[i].has_default_value)],
              allows_variadic_arguments |-> entity.is_variadic,
              return_type |-> Unwrap(entity.return_type),
              include_file |-> Unwrap(entity_include_file(entity.path)),
              origin_location |-> Some(entity.origin_location),
              template_arguments |-> IF entity.kind = "FunctionTemplate"
                                     THEN Some(entity.template_parameters)
                                     ELSE None])

parse_function(tps, entity) ==
  parse_function_with(tps, entity,
                      parse_unexposed_type(tps, None,
                                           trim(SubSeq(qualified_name(entity), 3,
                                                       Len(qualified_name(entity)))),
                                           IF entity.parent.kind = "Class"
                                           THEN Some(entity.parent) ELSE None,
                                           Some(entity)))

(***************************************************************************)
(* The entities of the translation unit                                    *)
(***************************************************************************)
IntType == Plain(BuiltInNumeric("Int"))
T0 == Plain(TemplateParameter(0, 0))
PtrTo(base) == CppType(FALSE, "Ptr", base)
ConstRefTo(base) == CppType(TRUE, "Ref", base)

\* entity.get_semantic_parent(): its kind, get_full_name and get_template_arguments
TemplateParent(kind, name, template_parameters) ==
  [kind |-> kind, name |-> name, template_parameters |-> template_parameters]

Parent(kind, name) == TemplateParent(kind, name, <<>>)

ParmDecl(name, type, has_default_value) ==
  [name |-> name, type |-> type, has_default_value |-> has_default_value]

\* an enclosing entity as should_process_entity sees it: get_full_name (None for Err)
\* and the presumed file path, a sequence of path components (<<>> when it is empty
\* or the entity has no location)
Enclosing(full_name, path) == [full_name |-> full_name, path |-> path]

\* the root entity handed to parse_types and parse_methods: cpp_parser.rs:158-159
translation_unit == Enclosing(None, <<>>)

\* a function entity declared in the file include_file of the include directory
FunctionEntity(kind, parent, name, return_type, arguments, include_file) ==
  [kind |-> kind, parent |-> parent, name |-> name,
   return_type |-> return_type, arguments |-> arguments,
   is_virtual |-> FALSE, is_pure_virtual |-> FALSE, is_const |-> FALSE,
   is_static |-> FALSE, accessibility |-> "Public", is_variadic |-> FALSE,
   template_parameters |-> <<>>, non_type_template_parameter |-> FALSE,
   path |-> <<"inc", include_file>>,
   ancestors |-> <<translation_unit>>,
   origin_location |-> "loc"]

arg_a == ParmDecl(Some("a"), Some(IntType), FALSE)
arg_b == ParmDecl(Some("b"), Some(IntType), TRUE)
arg_c == ParmDecl(None, Some(IntType), TRUE)
InA == Parent("Class", "A")
InV == TemplateParent("Class", "V", <<"U">>)

\* the Type of a template type parameter: Unexposed, canonically type-parameter-D-I
TemplateTypeParm(display_name, depth, index) ==
  ClangType("Unexposed", FALSE, display_name, <<"type-parameter", depth, index>>,
            None, None, None, None, <<>>)

void_type == ClangType("Void", FALSE, <<"void">>, <<"void">>, None, None, None, None, <<>>)

\* the function entity with its result type and the types of its ParmDecl children
\* parsed as parse_function parses them at cpp_parser.rs:718 and 746, Err as None
with_signature(entity, arguments, parsed_signature) ==
  [entity EXCEPT
     !.return_type = parsed_signature[1],
     !.arguments = [i \in 1..Len(arguments) |->
                      ParmDecl(arguments[i].name, parsed_signature[i + 1],
                               arguments[i].has_default_value)]]

as_option(r) == IF r.tag = "Ok" THEN r.value ELSE None

typed(tps, entity, result_type, arguments) ==
  with_signature(entity, arguments,
                 [i \in 1..(Len(arguments) + 1) |->
                    as_option(parse_type(tps,
                                         IF i = 1 THEN result_type ELSE arguments[i - 1].type,
                                         IF entity.parent.kind = "Class"
                                         THEN Some(entity.parent) ELSE None,
                                         Some(entity)))])

in_a_h(full_name) == Enclosing(Some(full_name), <<"inc", "a.h">>)

\* config.header_name: the header the translation unit includes
Headers ==
  {"classes.h", "templates.h", "virtual.h", "bases.h", "nested.h", "operators.h",
   "filtered.h", "recursive.h", "fields.h"}

\* CppParserConfig: cpp_parser.rs:105-111.  filtered.h is parsed with a blacklist.
Config(header_name) ==
  [header_name |-> header_name,
   include_dirs |-> {<<"inc">>},
   name_blacklist |-> IF header_name = "filtered.h"
                      THEN {<<"K">>, <<"N", "::", "h">>} ELSE {}]

\* CppClassField pushed at cpp_parser.rs:893-901
ClassField(name, field_type, visibility) ==
  [name |-> name, field_type |-> field_type, visibility |-> visibility]

\* a FieldDecl child of a class entity: get_name, the parsed get_type and
\* get_accessibility
FieldDecl(name, field_type, accessibility) ==
  [name |-> name, field_type |-> field_type, accessibility |-> accessibility]

\* a class entity with its FieldDecl children; get_accessibility() is None for a
\* class declared at namespace scope
ClassEntity(name, include_file, accessibility, children) ==
  [name |-> name, include_file |-> include_file, accessibility |-> accessibility,
   children |-> children]

\* the class entities of fields.h
ClassEntities ==
  { \* struct F { int a; protected: int b; private: int c; };
    ClassEntity("F", "f.h", None,
                <<FieldDecl("a", Plain(BuiltInNumeric("Int")), "Public"),
                  FieldDecl("b", Plain(BuiltInNumeric("Int")), "Protected"),
                  FieldDecl("c", Plain(BuiltInNumeric("Int")), "Private")>>),
    \* struct O { protected: struct P { int d; }; };
    ClassEntity("O", "f.h", None, <<>>),
    ClassEntity("O::P", "f.h", Some("Protected"),
                <<FieldDecl("d", Plain(BuiltInNumeric("Int")), "Public")>>) }

\* cpp_parser.rs:896-900: entity is the class entity, child the FieldDecl
field_visibility(entity, child) ==
  IF IsSome(entity.accessibility) THEN Unwrap(entity.accessibility) ELSE "Public"

\* the loop over the FieldDecl children in parse_class: cpp_parser.rs:889-901
parse_class_fields(entity) ==
  [i \in 1..Len(entity.children) |->
     ClassField(entity.children[i].name, entity.children[i].field_type,
                field_visibility(entity, entity.children[i]))]

\* what parse_enum / parse_class return for the type entities of the translation unit
TypeEntities(header_name) ==
  CASE header_name = "classes.h" ->
       \* struct A {..}; struct B : A {..}; struct C : B {}; or struct C : A, B {};
       { ClassData("A", "a.h", <<>>, <<>>, None),
         ClassData("B", "b.h", <<Plain(Class("A", None))>>, <<>>, None),
         ClassData("C", "b.h", <<Plain(Class("B", None))>>, <<>>, None),
         ClassData("C", "c.h", <<Plain(Class("A", None)), Plain(Class("B", None))>>,
                   <<>>, None) }
    [] header_name = "templates.h" ->
       \* struct A {..}; template<class T, class U> class V {}; enum E {..};
       { ClassData("A", "a.h", <<>>, <<>>, None),
         ClassData("V", "v.h", <<>>, <<>>, Some(<<"T", "U">>)),
         EnumData("E", "a.h") }
    [] header_name = "virtual.h" ->
       \* template<class T> struct A {..}; template<class T> struct B : A<T> {..};
       \* struct C : B<int> {};
       { ClassData("A", "a.h", <<>>, <<>>, Some(<<"T">>)),
         ClassData("B", "b.h", <<Plain(Class("A", Some(<<T0>>)))>>, <<>>, Some(<<"T">>)),
         ClassData("C", "c.h", <<Plain(Class("B", Some(<<IntType>>)))>>, <<>>, None) }
    [] header_name = "bases.h" ->
       \* X and Y are declared outside the included directories
       \* struct A { Y* y; }; struct B : X<int> {};
       \* template<class T> struct W {}; struct D : W<Y> {};
       { ClassData("A", "a.h", <<>>,
                   <<ClassField("y", PtrTo(Class("Y", None)), "Public")>>, None),
         ClassData("B", "b.h", <<Plain(Class("X", Some(<<IntType>>)))>>, <<>>, None),
         ClassData("W", "w.h", <<>>, <<>>, Some(<<"T">>)),
         ClassData("D", "w.h", <<Plain(Class("W", Some(<<Plain(Class("Y", None))>>)))>>,
                   <<>>, None) }
    [] header_name = "nested.h" ->
       \* template<class U> struct V {..};
       { ClassData("V", "v.h", <<>>, <<>>, Some(<<"U">>)) }
    [] header_name = "operators.h" ->
       \* struct A {..};
       { ClassData("A", "a.h", <<>>, <<>>, None) }
    [] header_name = "filtered.h" ->
       \* inc/a.h: struct A {..}; struct B : A {};   usr/s.h: struct S {..};
       \* inc/k.h: struct K { struct Inner {}; .. };
       \* usr/x.h: namespace X { #include "q.h" }   inc/q.h: struct Q {};
       \* enum E without a location
       { ClassData("A", "a.h", <<>>, <<>>, None),
         ClassData("B", "a.h", <<Plain(Class("A", None))>>, <<>>, None),
         ClassData("S", "s.h", <<>>, <<>>, None),
         ClassData("K", "k.h", <<>>, <<>>, None),
         ClassData("K::Inner", "k.h", <<>>, <<>>, None),
         ClassData("X::Q", "q.h", <<>>, <<>>, None),
         EnumData("E", "") }
    [] header_name = "recursive.h" ->
       \* template<class T> struct R : R<T*> { ~R(); void m(); };  struct S : R<int> {};
       \* the canonical type of the base R<T*> is R<type-parameter-0-0 *>
       { ClassData("R", "r.h", <<Plain(Class("R", Some(<<PtrTo(TemplateParameter(0, 0))>>)))>>,
                   <<>>, Some(<<"T">>)),
         ClassData("S", "r.h", <<Plain(Class("R", Some(<<IntType>>)))>>, <<>>, None) }
    [] header_name = "fields.h" ->
       { ClassData(entity.name, entity.include_file, <<>>, parse_class_fields(entity), None) :
           entity \in ClassEntities }

\* where the type entities of the translation unit are: the presumed file path and
\* the enclosing entities, outermost first
type_location(header_name, r) ==
  IF header_name = "filtered.h"
  THEN CASE r.name = "S" -> [path |-> <<"usr", "s.h">>, ancestors |-> <<translation_unit>>]
         [] r.name = "K::Inner" ->
              [path |-> <<"inc", "k.h">>,
               ancestors |-> <<translation_unit, Enclosing(Some(<<"K">>), <<"inc", "k.h">>)>>]
         [] r.name = "X::Q" ->
              [path |-> <<"inc", "q.h">>,
               ancestors |-> <<translation_unit, Enclosing(Some(<<"X">>), <<"usr", "x.h">>)>>]
         [] r.name = "E" -> [path |-> <<>>, ancestors |-> <<translation_unit>>]
         [] OTHER -> [path |-> <<"inc", r.include_file>>, ancestors |-> <<translation_unit>>]
  ELSE [path |-> <<"inc", r.include_file>>, ancestors |-> <<translation_unit>>]

\* the function entities of the translation unit
FunctionEntities(tps, header_name) ==
  CASE header_name = "classes.h" ->
       { \* struct A { A* m(int a); int m(int a, int b = 0, int = 0); virtual ~A();
         \*            A(int b = 0); A& operator=(const A& other); };
         FunctionEntity("Method", InA, <<"m">>, Some(PtrTo(Class("A", None))),
                        <<arg_a>>, "a.h"),
         FunctionEntity("Method", InA, <<"m">>, Some(IntType),
                        <<arg_a, arg_b, arg_c>>, "a.h"),
         [FunctionEntity("Destructor", InA, <<"~", "A">>, Some(void), <<>>, "a.h")
            EXCEPT !.is_virtual = TRUE],
         FunctionEntity("Constructor", InA, <<"A">>, Some(void), <<arg_b>>, "a.h"),
         FunctionEntity("Method", InA, <<"operator", "=">>,
                        Some(CppType(FALSE, "Ref", Class("A", None))),
                        <<ParmDecl(Some("other"), Some(ConstRefTo(Class("A", None))), FALSE)>>,
                        "a.h"),
         \* struct B : A { void m(); };
         FunctionEntity("Method", Parent("Class", "B"), <<"m">>, Some(void), <<>>, "b.h") }
    [] header_name = "templates.h" ->
       { \* struct A { void n(E e, int b = 0); ~A(); };
         FunctionEntity("Method", InA, <<"n">>, Some(void),
                        <<ParmDecl(Some("e"), Some(Plain(Enum("E"))), FALSE), arg_b>>, "a.h"),
         FunctionEntity("Destructor", InA, <<"~", "A">>, Some(void), <<>>, "a.h"),
         \* template<class T> V<int, int> f(V<int, T> v);
         [FunctionEntity("FunctionTemplate", Parent("None", ""), <<"f">>,
                         Some(Plain(Class("V", Some(<<IntType, IntType>>)))),
                         <<ParmDecl(Some("v"), Some(Plain(Class("V", Some(<<IntType, T0>>)))),
                                    FALSE)>>, "v.h")
            EXCEPT !.template_parameters = <<"T">>],
         \* V<X, int> h(X (*cb)(int));  X is not declared in the included directories
         FunctionEntity("FunctionDecl", Parent("None", ""), <<"h">>,
                        Some(Plain(Class("V", Some(<<Plain(Class("X", None)), IntType>>)))),
                        <<ParmDecl(Some("cb"),
                                   Some(Plain(FunctionPointer(Plain(Class("X", None)),
                                                              <<IntType>>))),
                                   FALSE)>>, "v.h"),
         \* namespace N { void k(V<int> v); }  one template argument for a template of two
         FunctionEntity("FunctionDecl", Parent("Namespace", "N"), <<"k">>, Some(void),
                        <<ParmDecl(Some("v"), Some(Plain(Class("V", Some(<<IntType>>)))),
                                   FALSE)>>, "v.h") }
    [] header_name = "virtual.h" ->
       { \* template<class T> struct A { virtual ~A(); };
         [FunctionEntity("Destructor", InA, <<"~", "A">>, Some(void), <<>>, "a.h")
            EXCEPT !.is_virtual = TRUE],
         \* template<class T> struct B : A<T> { ~B(); };  the base is dependent, so the
         \* front end finds no overridden destructor and is_virtual_method() is false
         FunctionEntity("Destructor", Parent("Class", "B"), <<"~", "B">>, Some(void),
                        <<>>, "b.h"),
         \* template<class T> struct A { void m(); };
         FunctionEntity("Method", InA, <<"m">>, Some(void), <<>>, "a.h") }
    [] header_name = "bases.h" ->
       { \* struct A { void m(); };
         FunctionEntity("Method", InA, <<"m">>, Some(void), <<>>, "a.h"),
         \* void g(W<int> w);
         FunctionEntity("FunctionDecl", Parent("None", ""), <<"g">>, Some(void),
                        <<ParmDecl(Some("w"), Some(Plain(Class("W", Some(<<IntType>>)))),
                                   FALSE)>>, "w.h") }
    [] header_name = "nested.h" ->
       { typed(tps, d.entity, d.result_type, d.arguments) : d \in
           { \* template<class U> struct V { template<class S, class T> void g(T t); };
             \* the canonical type of T is type-parameter-1-1
             [entity |-> [FunctionEntity("FunctionTemplate", InV, <<"g">>, None, <<>>, "v.h")
                            EXCEPT !.template_parameters = <<"S", "T">>],
              result_type |-> void_type,
              arguments |-> <<ParmDecl(Some("t"), TemplateTypeParm(<<"T">>, "1", "1"),
                                       FALSE)>>],
             \* template<class U> struct V { U get(); };
             [entity |-> FunctionEntity("Method", InV, <<"get">>, None, <<>>, "v.h"),
              result_type |-> TemplateTypeParm(<<"U">>, "0", "0"),
              arguments |-> <<>>],
             \* template<class T> T id(T t);
             [entity |-> [FunctionEntity("FunctionTemplate", Parent("None", ""), <<"id">>,
                                         None, <<>>, "v.h")
                            EXCEPT !.template_parameters = <<"T">>],
              result_type |-> TemplateTypeParm(<<"T">>, "0", "0"),
              arguments |-> <<ParmDecl(Some("t"), TemplateTypeParm(<<"T">>, "0", "0"),
                                       FALSE)>>],
             \* template<class U> struct V { operator U(); };
             [entity |-> FunctionEntity("ConversionFunction", InV, <<"operator", " ", "U">>,
                                        None, <<>>, "v.h"),
              result_type |-> TemplateTypeParm(<<"U">>, "0", "0"),
              arguments |-> <<>>],
             \* template<class U> struct V { template<class S, class T> operator T(); };
             [entity |-> [FunctionEntity("FunctionTemplate", InV, <<"operator", " ", "T">>,
                                         None, <<>>, "v.h")
                            EXCEPT !.template_parameters = <<"S", "T">>],
              result_type |-> TemplateTypeParm(<<"T">>, "1", "1"),
              arguments |-> <<>>],
             \* template<class U> struct V { template<class S> operator U(); };
             [entity |-> [FunctionEntity("FunctionTemplate", InV, <<"operator", " ", "U">>,
                                         None, <<>>, "v.h")
                            EXCEPT !.template_parameters = <<"S">>],
              result_type |-> TemplateTypeParm(<<"U">>, "0", "0"),
              arguments |-> <<>>],
             \* template<class U> struct V { template<class U> operator U(); };
             \* for the dialects that let a member template reuse the name U
             [entity |-> [FunctionEntity("FunctionTemplate", InV, <<"operator", " ", "U">>,
                                         None, <<>>, "v.h")
                            EXCEPT !.template_parameters = <<"U">>],
              result_type |-> TemplateTypeParm(<<"U">>, "1", "0"),
              arguments |-> <<>>] } }
    [] header_name = "operators.h" ->
       { \* struct A { A operator+(const A& other); A operator+(); };
         FunctionEntity("Method", InA, <<"operator", "+">>, Some(Plain(Class("A", None))),
                        <<ParmDecl(Some("other"), Some(ConstRefTo(Class("A", None))), FALSE)>>,
                        "a.h"),
         FunctionEntity("Method", InA, <<"operator", "+">>, Some(Plain(Class("A", None))),
                        <<>>, "a.h"),
         \* struct A { int operator()(int a, int b = 0); };
         FunctionEntity("Method", InA, <<"operator", "()">>, Some(IntType),
                        <<arg_a, arg_b>>, "a.h"),
         \* A operator+(A a, int b);
         FunctionEntity("FunctionDecl", Parent("None", ""), <<"operator", "+">>,
                        Some(Plain(Class("A", None))),
                        <<ParmDecl(Some("a"), Some(Plain(Class("A", None))), FALSE),
                          ParmDecl(Some("b"), Some(IntType), FALSE)>>, "a.h"),
         \* struct A { operator int(); operator X*(); };
         \* X is not declared in the included directories
         FunctionEntity("ConversionFunction", InA, <<"operator", " ", "int">>,
                        Some(IntType), <<>>, "a.h"),
         FunctionEntity("ConversionFunction", InA, <<"operator", " ", "X", "*">>,
                        Some(PtrTo(Class("X", None))), <<>>, "a.h"),
         \* namespace N { A operator+(A a, int b); A operator+(A a); }
         FunctionEntity("FunctionDecl", Parent("Namespace", "N"), <<"operator", "+">>,
                        Some(Plain(Class("A", None))),
                        <<ParmDecl(Some("a"), Some(Plain(Class("A", None))), FALSE),
                          ParmDecl(Some("b"), Some(IntType), FALSE)>>, "a.h"),
         FunctionEntity("FunctionDecl", Parent("Namespace", "N"), <<"operator", "+">>,
                        Some(Plain(Class("A", None))),
                        <<ParmDecl(Some("a"), Some(Plain(Class("A", None))), FALSE)>>,
                        "a.h") }
    [] header_name = "filtered.h" ->
       { \* inc/a.h: struct A { void m(); };  void g();
         [FunctionEntity("Method", InA, <<"m">>, Some(void), <<>>, "a.h")
            EXCEPT !.ancestors = <<translation_unit, in_a_h(<<"A">>)>>],
         FunctionEntity("FunctionDecl", Parent("None", ""), <<"g">>, Some(void), <<>>, "a.h"),
         \* usr/s.h: struct S { void s(); };
         [FunctionEntity("Method", Parent("Class", "S"), <<"s">>, Some(void), <<>>, "s.h")
            EXCEPT !.path = <<"usr", "s.h">>,
                   !.ancestors = <<translation_unit,
                                   Enclosing(Some(<<"S">>), <<"usr", "s.h">>)>>],
         \* inc/k.h: struct K { void k(); };  K is in the blacklist
         [FunctionEntity("Method", Parent("Class", "K"), <<"k">>, Some(void), <<>>, "k.h")
            EXCEPT !.ancestors = <<translation_unit,
                                   Enclosing(Some(<<"K">>), <<"inc", "k.h">>)>>],
         \* inc/a.h: namespace N { void h(); void j(); }  N::h is in the blacklist
         [FunctionEntity("FunctionDecl", Parent("Namespace", "N"), <<"h">>, Some(void),
                         <<>>, "a.h")
            EXCEPT !.ancestors = <<translation_unit, in_a_h(<<"N">>)>>],
         [FunctionEntity("FunctionDecl", Parent("Namespace", "N"), <<"j">>, Some(void),
                         <<>>, "a.h")
            EXCEPT !.ancestors = <<translation_unit, in_a_h(<<"N">>)>>],
         \* a function that the front end declares itself: it has no location
         [FunctionEntity("FunctionDecl", Parent("None", ""), <<"f">>, Some(void), <<>>, "")
            EXCEPT !.path = <<>>] }
    [] header_name = "recursive.h" ->
       { \* template<class T> struct R : R<T*> { ~R(); void m(); };
         FunctionEntity("Destructor", Parent("Class", "R"), <<"~", "R">>, Some(void),
                        <<>>, "r.h"),
         FunctionEntity("Method", Parent("Class", "R"), <<"m">>, Some(void), <<>>, "r.h") }
    [] header_name = "fields.h" -> {}

(***************************************************************************)
(* run and post_process                                                    *)
(***************************************************************************)
\* cpp_parser.rs:158-168
run_passes ==
  <<"parse_types", "parse_methods", "check_integrity", "find_template_instantiations">>

\* cpp_data.rs:281-283
post_process_passes ==
  <<"ensure_explicit_destructors", "generate_methods_with_omitted_args",
    "add_inherited_methods">>

successor_in(sequence, pass) ==
  LET i == CHOOSE k \in 1..Len(sequence) : sequence[k] = pass
  IN IF i < Len(sequence) THEN sequence[i + 1] ELSE "done"

next_pass_integrity_last(pass) ==
  successor_in(<<"parse_types", "parse_methods">> \o post_process_passes
                 \o <<"find_template_instantiations", "check_integrity">>, pass)

\* the pass that runs after `pass`: post_process works on the CppData run returns
next_pass(pass) == successor_in(run_passes \o post_process_passes, pass)

\* no Type has been handed to parse_type
no_type == [kind |-> "None"]

Init ==
  /\ config \in {Config(header_name) : header_name \in Headers}
  /\ pc = "parse_types"
  /\ types = <<>>
  /\ methods = <<>>
  /\ template_instantiations = EmptyMap
  /\ todo = <<>>
  /\ visited = <<>>
  /\ log = <<>>
  /\ passes = <<>>
  /\ headers = EmptyMap
  /\ clang_type = no_type
  /\ parsed = None

existing_name_accepted(tps, name) == FALSE

\* cpp_parser.rs:1014 and 1040
existing_name(tps, name) == IsSome(find_type(tps, name))

\* PathBuf::starts_with: dir is a prefix of path, component by component
starts_with(path, dir) == Len(dir) <= Len(path) /\ SubSeq(path, 1, Len(dir)) = dir

should_process_entity_without_blacklist(cfg, full_name, path) ==
  path # <<>> => \E dir \in cfg.include_dirs : starts_with(path, dir)

\* cpp_parser.rs:984-999
should_process_entity(cfg, full_name, path) ==
  /\ path # <<>> => \E dir \in cfg.include_dirs : starts_with(path, dir)
  /\ IsSome(full_name) => Unwrap(full_name) \notin cfg.name_blacklist

\* the recursion of parse_types and parse_methods comes to the entity: the early return
\* of cpp_parser.rs:1003-1005 and 1062-1064 was taken neither for it nor for an
\* enclosing entity, whose children are visited at 1050-1052 and 1089-1091
is_visited(cfg, full_name, path, ancestors) ==
  /\ \A k \in 1..Len(ancestors) :
       should_process_entity(cfg, ancestors[k].full_name, ancestors[k].path)
  /\ should_process_entity(cfg, Some(full_name), path)

\* the warnings with the given message
failures(messages, message) ==
  Cardinality({k \in 1..Len(messages) : messages[k].message = message})

\* what parse_types does with an enum or class entity it visits, r being what
\* parse_enum or parse_class builds for it: cpp_parser.rs:1007-1049, with the Err of
\* 872-878 and 928-934 when the entity has no include file
parse_types_on(r, path) ==
  IF ~IsSome(entity_include_file(path))
  THEN /\ log' = Append(log, Warning("Failed to parse type", <<r.name>>, None))
       /\ UNCHANGED <<types, pc>>
  ELSE IF existing_name(types, r.name)
  THEN /\ pc' = "panic"
       /\ UNCHANGED <<types, log>>
  ELSE /\ types' = Append(types, r)
       /\ UNCHANGED <<pc, log>>

\* parse_types on one enum or class entity: cpp_parser.rs:1002-1053
ParseTypes ==
  /\ pc = "parse_types"
  /\ Len(types) + failures(log, "Failed to parse type") < MaxTypes
  /\ \E r \in TypeEntities(config.header_name) :
       /\ is_visited(config, <<r.name>>, type_location(config.header_name, r).path,
                     type_location(config.header_name, r).ancestors)
       /\ parse_types_on(r, type_location(config.header_name, r).path)
  /\ UNCHANGED <<type_vars, visited, config,
               methods, template_instantiations, todo, passes, headers>>

\* cpp_parser.rs:158-159
ParseTypesDone ==
  /\ pc = "parse_types"
  /\ pc' = next_pass("parse_types")
  /\ passes' = Append(passes, "parse_types")
  /\ UNCHANGED <<type_vars, visited, log, config,
               types, methods, template_instantiations, todo, headers>>

\* get_full_name of a function entity: cpp_parser.rs:77-103
get_full_name(entity) ==
  IF entity.parent.kind \in {"Class", "Namespace"}
  THEN <<entity.parent.name, "::">> \o entity.name
  ELSE entity.name

parse_methods_on_aborting(entity, r) ==
  CASE r.tag = "Ok" -> /\ methods' = Append(methods, Unwrap(r.value))
                       /\ UNCHANGED <<pc, log>>
    [] OTHER -> /\ pc' = "panic"
                /\ UNCHANGED <<methods, log>>

\* what parse_methods does with the answer r of parse_function: cpp_parser.rs:1073-1085
parse_methods_on(entity, r) ==
  CASE r.tag = "Ok" -> /\ methods' = Append(methods, Unwrap(r.value))
                       /\ UNCHANGED <<pc, log>>
    [] r.tag = "Err" -> /\ log' = Append(log, Warning("Failed to parse method",
                                                      get_full_name(entity), None))
                        /\ UNCHANGED <<methods, pc>>
    [] r.tag = "Panic" -> /\ pc' = "panic"
                          /\ UNCHANGED <<methods, log>>

\* parse_methods on one function entity: cpp_parser.rs:1061-1088
ParseMethods ==
  /\ pc = "parse_methods"
  /\ Len(methods) + failures(log, "Failed to parse method") < MaxMethods
  /\ \E entity \in FunctionEntities(types, config.header_name) :
       /\ is_visited(config, get_full_name(entity), entity.path, entity.ancestors)
       /\ parse_methods_on(entity, parse_function(types, entity))
  /\ UNCHANGED <<type_vars, visited, config,
               types, template_instantiations, todo, passes, headers>>

\* cpp_parser.rs:159-164
ParseMethodsDone ==
  /\ pc = "parse_methods"
  /\ pc' = next_pass("parse_methods")
  /\ passes' = Append(passes, "parse_methods")
  /\ UNCHANGED <<type_vars, visited, log, config,
               types, methods, template_instantiations, todo, headers>>

\* cpp_parser.rs:164
CheckIntegrity ==
  /\ pc = "check_integrity"
  /\ methods' = check_integrity(types, methods)
  /\ log' = log \o integrity_warnings(types, methods)
  /\ pc' = next_pass("check_integrity")
  /\ passes' = Append(passes, "check_integrity")
  /\ UNCHANGED <<type_vars, visited, config,
               types, template_instantiations, todo, headers>>

\* cpp_parser.rs:168-173
FindTemplateInstantiations ==
  /\ pc = "find_template_instantiations"
  /\ LET result == collect_instantiations(types, methods)
     IN IF instantiations_accepted(types, result)
        THEN /\ template_instantiations' = result
             /\ pc' = next_pass("find_template_instantiations")
             /\ passes' = Append(passes, "find_template_instantiations")
        ELSE /\ pc' = "panic"
             /\ UNCHANGED <<template_instantiations, passes>>
  /\ UNCHANGED <<type_vars, visited, log, config,
               types, methods, todo, headers>>

\* cpp_data.rs:281
EnsureExplicitDestructors ==
  /\ pc = "ensure_explicit_destructors"
  /\ IF ensure_explicit_destructors_overflows(types, methods, 1)
     THEN /\ pc' = "overflow"
          /\ UNCHANGED <<methods, passes>>
     ELSE /\ methods' = ensure_explicit_destructors(types, methods)
          /\ pc' = next_pass("ensure_explicit_destructors")
          /\ passes' = Append(passes, "ensure_explicit_destructors")
  /\ UNCHANGED <<type_vars, visited, log, config,
               types, template_instantiations, todo, headers>>

\* cpp_data.rs:282
GenerateMethodsWithOmittedArgs ==
  /\ pc = "generate_methods_with_omitted_args"
  /\ methods' = generate_methods_with_omitted_args(methods)
  /\ pc' = next_pass("generate_methods_with_omitted_args")
  /\ passes' = Append(passes, "generate_methods_with_omitted_args")
  /\ UNCHANGED <<type_vars, visited, log, config,
               types, template_instantiations, todo, headers>>

\* cpp_data.rs:183-186: the loop over all_type_names is entered
AddInheritedMethods ==
  /\ pc = "add_inherited_methods"
  /\ todo' = all_type_names(types)
  /\ visited' = <<>>
  /\ pc' = "add_inherited_methods_from"
  /\ UNCHANGED <<type_vars, log, config,
               types, methods, template_instantiations, passes, headers>>

\* one body of add_inherited_methods_from, up to its recursive calls: cpp_data.rs:124-176
AddInheritedMethodsFrom ==
  /\ pc = "add_inherited_methods_from"
  /\ todo # <<>>
  /\ Head(todo).depth = 0 \/ Len(visited) < MaxCalls
  /\ LET base_name == Head(todo).name
     IN /\ methods' = methods \o new_inherited_methods(types, methods, base_name)
        /\ todo' = calls_after(derived_types_of(types, base_name), Head(todo).depth,
                               Tail(todo))
        /\ visited' = IF Head(todo).depth = 0 THEN <<base_name>>
                       ELSE Append(visited, base_name)
  /\ UNCHANGED <<type_vars, log, config,
               pc, types, template_instantiations, passes, headers>>

\* cpp_data.rs:189: the loop over all_type_names is over
AddInheritedMethodsDone ==
  /\ pc = "add_inherited_methods_from"
  /\ todo = <<>>
  /\ pc' = next_pass("add_inherited_methods")
  /\ passes' = Append(passes, "add_inherited_methods")
  /\ UNCHANGED <<type_vars, visited, log, config,
               types, methods, template_instantiations, todo, headers>>

\* split_by_headers on the final model
SplitByHeaders ==
  /\ pc = "done"
  /\ headers' = split_by_headers(types, methods, template_instantiations)
  /\ pc' = "split"
  /\ UNCHANGED <<type_vars, visited, log, config,
               types, methods, template_instantiations, todo, passes>>

Next ==
  \/ ParseTypes
  \/ ParseTypesDone
  \/ ParseMethods
  \/ ParseMethodsDone
  \/ CheckIntegrity
  \/ FindTemplateInstantiations
  \/ EnsureExplicitDestructors
  \/ GenerateMethodsWithOmittedArgs
  \/ AddInheritedMethods
  \/ AddInheritedMethodsFrom
  \/ AddInheritedMethodsDone
  \/ SplitByHeaders

Spec == Init /\ [][Next]_vars

\* post_process is straight-line code: each pass runs as soon as the previous one has
\* returned, and every call of add_inherited_methods_from that is made is executed
FairSpec ==
  Spec /\ WF_vars(AddInheritedMethods \/ AddInheritedMethodsFrom \/ AddInheritedMethodsDone)

(***************************************************************************)
(* parse_type on the Types a front end can hand to it                      *)
(***************************************************************************)
\* the number of pointer and reference levels of the Types that are parsed
MaxDepth == 3

indirection_kinds == {"Pointer", "LValueReference", "RValueReference"}

LeafType(kind, is_const, display_name, canonical_name, declaration) ==
  ClangType(kind, is_const,
            (IF is_const THEN <<"const">> ELSE <<>>) \o display_name,
            (IF is_const THEN <<"const">> ELSE <<>>) \o canonical_name,
            declaration, None, None, None, <<>>)

int_type == LeafType("Int", FALSE, <<"int">>, <<"int">>, None)

\* void, int, const int, const int32_t, struct A, const struct A, a private class,
\* enum E, int (int), T and const T of a template, and a member pointer
LeafTypes ==
  { LeafType("Void", FALSE, <<"void">>, <<"void">>, None),
    int_type,
    LeafType("Int", TRUE, <<"int">>, <<"int">>, None),
    LeafType("Int", TRUE, <<"int32_t">>, <<"int">>, None),
    LeafType("Record", FALSE, <<"A">>, <<"A">>,
             Some(Declaration("StructDecl", "A", "Public"))),
    LeafType("Record", TRUE, <<"A">>, <<"A">>,
             Some(Declaration("StructDecl", "A", "Public"))),
    LeafType("Record", FALSE, <<"P">>, <<"P">>,
             Some(Declaration("ClassDecl", "P", "Private"))),
    LeafType("Enum", FALSE, <<"E">>, <<"E">>, Some(Declaration("EnumDecl", "E", "Public"))),
    [LeafType("FunctionPrototype", FALSE, <<"int", "(int)">>, <<"int", "(int)">>, None)
       EXCEPT !.result_type = Some(int_type), !.argument_types = <<int_type>>],
    LeafType("Unexposed", FALSE, <<"T">>, <<"type-parameter", "0", "0">>, None),
    LeafType("Unexposed", TRUE, <<"T">>, <<"type-parameter", "0", "0">>, None),
    LeafType("MemberPointer", FALSE, <<"int", "A::*">>, <<"int", "A::*">>, None) }

\* a pointer or reference Type whose get_pointee_type() is pointee
IndirectType(kind, is_const, pointee) ==
  ClangType(kind, is_const,
            pointee.display_name \o <<IF kind = "Pointer" THEN "*" ELSE "&">>
              \o (IF is_const THEN <<"const">> ELSE <<>>),
            pointee.canonical_name \o <<IF kind = "Pointer" THEN "*" ELSE "&">>
              \o (IF is_const THEN <<"const">> ELSE <<>>),
            None, None, Some(pointee), None, <<>>)

\* every tree of n pointer and reference levels over a leaf, also the trees that
\* the C++ type system rules out (a pointer to a reference)
RECURSIVE TypesOfDepth(_)
TypesOfDepth(n) ==
  IF n = 0 THEN LeafTypes
  ELSE {IndirectType(kind, is_const, pointee) :
          kind \in indirection_kinds, is_const \in BOOLEAN,
          pointee \in TypesOfDepth(n - 1)}

TypeInit ==
  /\ config = Config("classes.h")
  /\ pc = "parse_type"
  /\ types = <<>>
  /\ methods = <<>>
  /\ template_instantiations = EmptyMap
  /\ todo = <<>>
  /\ visited = <<>>
  /\ log = <<>>
  /\ passes = <<>>
  /\ headers = EmptyMap
  /\ clang_type \in UNION {TypesOfDepth(n) : n \in 0..MaxDepth}
  /\ parsed = None

\* parse_type(type1, None, None), as parse_class calls it for a base specifier
ParseType ==
  /\ pc = "parse_type"
  /\ parsed' = Some(parse_type(types, clang_type, None, None))
  /\ pc' = "parsed"
  /\ UNCHANGED <<clang_type, config, types, methods, template_instantiations, todo,
                 visited, log, passes, headers>>

TypeNext == ParseType

TypeSpec == TypeInit /\ [][TypeNext]_vars

(***************************************************************************)
(* Properties                                                              *)
(***************************************************************************)
Finished == pc \in {"done", "split"}

TypeNames == {types[i].name : i \in 1..Len(types)}

Indices(ms) == 1..Len(ms)

\* the Class and Enum names a type refers to, through template arguments and
\* function pointer signatures
RECURSIVE ReferencedNames(_)
ReferencedNames(type1) ==
  (IF type1.base.tag \in {"Class", "Enum"} THEN {type1.base.name} ELSE {})
  \cup (IF IsSome(type1.base.template_arguments)
        THEN UNION {ReferencedNames(Unwrap(type1.base.template_arguments)[i]) :
                      i \in 1..Len(Unwrap(type1.base.template_arguments))}
        ELSE {})
  \cup (IF IsSome(type1.base.return_type)
        THEN ReferencedNames(Unwrap(type1.base.return_type))
        ELSE {})
  \cup UNION {ReferencedNames(type1.base.arguments[i]) : i \in 1..Len(type1.base.arguments)}

SignatureNames(method) ==
  ReferencedNames(method.return_type)
  \cup UNION {ReferencedNames(method.arguments[i].argument_type) :
                i \in 1..Len(method.arguments)}
  \cup (IF IsSome(method.class_membership)
        THEN ReferencedNames(Plain(Unwrap(method.class_membership).class_type))
        ELSE {})

IsDerived(method) == method.origin_location = None

\* C1: in the final output every Class or Enum name referenced by the return type,
\* an argument type or the owning class type of a callable, parsed or derived,
\* is the name of a declaration in types.
C1_CallablesResolve ==
  Finished => \A i \in Indices(methods) : SignatureNames(methods[i]) \subseteq TypeNames

\* a finished run in which B has inherited a method that returns A*
C1_Witness ==
  /\ pc = "done"
  /\ \E i \in Indices(methods) :
       /\ IsDerived(methods[i])
       /\ class_name(methods[i]) = Some("B")
       /\ methods[i].return_type.base = Class("A", None)

DestructorsOf(name) ==
  {i \in Indices(methods) :
     /\ IsSome(methods[i].class_membership)
     /\ Unwrap(methods[i].class_membership).kind = "Destructor"
     /\ Unwrap(methods[i].class_membership).class_type.name = name}

ParsedDestructorsOf(name) == {i \in DestructorsOf(name) : ~IsDerived(methods[i])}

AfterDestructorPass ==
  pc \in {"generate_methods_with_omitted_args", "add_inherited_methods",
          "add_inherited_methods_from", "done", "split"}

\* C2: once ensure_explicit_destructors has run, and through the later passes, if
\* no class has two parsed destructors then every class of types has exactly one
\* destructor bound to it: its parsed one, or else one synthesized ~ClassName;
\* an enum has none.
C2_OneDestructorPerClass ==
  (AfterDestructorPass /\ \A n \in TypeNames : Cardinality(ParsedDestructorsOf(n)) <= 1)
  => \A t \in Indices(types) :
       IF types[t].kind = "Class"
       THEN /\ Cardinality(DestructorsOf(types[t].name)) = 1
            /\ ParsedDestructorsOf(types[t].name) = {}
                 => \A i \in DestructorsOf(types[t].name) :
                      methods[i].name = <<"~", types[t].name>>
       ELSE DestructorsOf(types[t].name) = {}

\* a finished run with a parsed ~A, no parsed ~V, an enum, and an omitted-argument clone
C2_Witness ==
  /\ pc = "done"
  /\ {"A", "V", "E"} \subseteq TypeNames
  /\ Cardinality(ParsedDestructorsOf("A")) = 1
  /\ ParsedDestructorsOf("V") = {}
  /\ \E i \in Indices(methods) : methods[i].name = <<"n">> /\ Len(methods[i].arguments) = 1

Appended(old, new) == SubSeq(new, Len(old) + 1, Len(new))

\* C3: every callable appended by generate_methods_with_omitted_args has an original
\* callable, present before the pass, that is equal to it in every field but the
\* arguments, has a strictly longer argument list of which the clone's arguments
\* are a prefix, and has has_default_value on every argument beyond that prefix.
C3_ClonesHaveOriginals ==
  [][pc = "generate_methods_with_omitted_args" =>
       /\ SubSeq(methods', 1, Len(methods)) = methods
       /\ \A c \in Range(Appended(methods, methods')) :
            \E j \in Indices(methods) :
              /\ [methods[j] EXCEPT !.arguments = c.arguments] = c
              /\ Len(methods[j].arguments) > Len(c.arguments)
              /\ SubSeq(methods[j].arguments, 1, Len(c.arguments)) = c.arguments
              /\ \A k \in (Len(c.arguments) + 1)..Len(methods[j].arguments) :
                   methods[j].arguments[k].has_default_value]_vars

C3_Witness ==
  /\ pc = "add_inherited_methods"
  /\ \E i, j \in Indices(methods) :
       /\ Len(methods[j].arguments) = 3
       /\ Len(methods[i].arguments) = 1
       /\ [methods[j] EXCEPT !.arguments = methods[i].arguments] = methods[i]
       /\ IsSome(methods[i].origin_location)

\* the length of the maximal run of defaulted arguments at the end of the list
TrailingDefaults(method) ==
  LET n == Len(method.arguments)
  IN CHOOSE k \in 0..n :
       /\ \A j \in (n - k + 1)..n : method.arguments[j].has_default_value
       /\ k < n => ~method.arguments[n - k].has_default_value

ExpectedClones(method) ==
  [j \in 1..TrailingDefaults(method) |->
     [method EXCEPT !.arguments = SubSeq(@, 1, Len(@) - j)]]

\* C4: generate_methods_with_omitted_args appends, for each callable present before
\* the pass and in their order, one clone per popped length n-1, ..., n-k, where k is
\* the length of the maximal run of defaulted arguments ending its argument list, and
\* nothing else: nothing for k = 0, and no clone of a clone.
C4_OneClonePerPoppedLength ==
  [][pc = "generate_methods_with_omitted_args" =>
       methods' = methods \o FlatMap(ExpectedClones, methods)]_vars

C4_Witness ==
  /\ pc = "add_inherited_methods"
  /\ \E j \in Indices(methods) :
       /\ Len(methods[j].arguments) = 3
       /\ TrailingDefaults(methods[j]) = 2
       /\ ~IsDerived(methods[j])
       /\ Cardinality({i \in Indices(methods) :
                         /\ methods[i].name = methods[j].name
                         /\ methods[i].return_type = methods[j].return_type
                         /\ Len(methods[i].arguments) < 3}) = 2

TemplateParametersOf(name) ==
  Unwrap(Unwrap(find_type(types, name)).template_arguments)

\* C5: every argument tuple recorded in template_instantiations is fully bound (no
\* argument has a TemplateParameter base) and has as many arguments as the class
\* template of that name declares parameters.
C5_InstantiationsFullyBound ==
  \A name \in DOMAIN template_instantiations :
    \A i \in 1..Len(template_instantiations[name]) :
      LET ins == template_instantiations[name][i]
      IN /\ \A k \in 1..Len(ins) : ins[k].base.tag # "TemplateParameter"
         /\ Len(ins) = Len(TemplateParametersOf(name))

\* D's bases list contains a Class reference named base_name
NamesBase(type1, base_name) ==
  \E b \in Range(type1.bases) : b.base.tag = "Class" /\ b.base.name = base_name

BoundTo(method, name) ==
  /\ IsSome(method.class_membership)
  /\ Unwrap(method.class_membership).class_type.name = name

Inheritable(method) ==
  /\ Unwrap(method.class_membership).kind \notin {"Constructor", "Destructor"}
  /\ method.operator # Some(Operator("Assignment"))

\* clone is base_method moved onto the class named derived_name
IsCloneOnto(clone, base_method, derived_name) ==
  /\ BoundTo(clone, derived_name)
  /\ clone.name = base_method.name
  /\ clone.arguments = base_method.arguments
  /\ clone.return_type = base_method.return_type
  /\ clone.operator = base_method.operator
  /\ Unwrap(clone.class_membership).kind = Unwrap(base_method.class_membership).kind

\* C6: in a step of add_inherited_methods_from for base C, for every class D whose
\* bases name C, a method bound to C is cloned onto D if and only if it is not a
\* constructor, not a destructor, not the assignment operator, and no method bound
\* to D has its name when the step runs (whatever the arguments); and nothing but
\* such clones is added.
C6_InheritedIffNotOverriddenByName ==
  [][(pc = "add_inherited_methods_from" /\ todo # <<>>) =>
       LET C == Head(todo).name
           added == Range(Appended(methods, methods'))
       IN /\ SubSeq(methods', 1, Len(methods)) = methods
          /\ \A t \in Indices(types) :
               (types[t].kind = "Class" /\ NamesBase(types[t], C)) =>
                 \A j \in Indices(methods) :
                   BoundTo(methods[j], C) =>
                     ((\E c \in added : IsCloneOnto(c, methods[j], types[t].name))
                      <=> /\ Inheritable(methods[j])
                          /\ ~\E k \in Indices(methods) :
                                /\ BoundTo(methods[k], types[t].name)
                                /\ methods[k].name = methods[j].name)
          /\ \A c \in added :
               \E t \in Indices(types), j \in Indices(methods) :
                 /\ types[t].kind = "Class" /\ NamesBase(types[t], C)
                 /\ BoundTo(methods[j], C)
                 /\ IsCloneOnto(c, methods[j], types[t].name)]_vars

\* B declares no m and has received two overloads of A's m; C declares q
C6_Witness ==
  /\ pc = "add_inherited_methods_from"
  /\ \E i, j \in Indices(methods) :
       /\ BoundTo(methods[i], "B") /\ BoundTo(methods[j], "B")
       /\ IsDerived(methods[i]) /\ IsDerived(methods[j])
       /\ methods[i].name = <<"m">> /\ methods[j].name = <<"m">>
       /\ Len(methods[i].arguments) = 1 /\ Len(methods[j].arguments) = 3

\* C7: when add_inherited_methods is over, for every class D whose bases name a
\* class C and every method bound to C that is not a constructor, a destructor or
\* the assignment operator, some method bound to D has that method's name.
C7_ClosedUnderInheritance ==
  Finished =>
    \A t \in Indices(types) :
      types[t].kind = "Class" =>
        \A b \in Range(types[t].bases) :
          b.base.tag = "Class" =>
            \A j \in Indices(methods) :
              (BoundTo(methods[j], b.base.name) /\ Inheritable(methods[j])) =>
                \E k \in Indices(methods) :
                  /\ BoundTo(methods[k], types[t].name)
                  /\ methods[k].name = methods[j].name

\* types are listed derived-first (C : B, B : A, A) and A's m has reached C
C7_Witness ==
  /\ pc = "done"
  /\ Len(types) = 3
  /\ types[1].name = "C" /\ types[2].name = "B" /\ types[3].name = "A"
  /\ \E i, k \in Indices(methods) :
       /\ BoundTo(methods[i], "A") /\ methods[i].name = <<"m">>
       /\ BoundTo(methods[k], "C") /\ methods[k].name = <<"m">> /\ IsDerived(methods[k])

NoDuplicateNames ==
  \A i, j \in Indices(types) : types[i].name = types[j].name => i = j

\* C8: the entity store never holds two declarations with the same name; the type
\* pass changes it only by appending a declaration whose name is new, and a panic
\* in the type pass stores nothing.
C8_UniqueTypeNames ==
  /\ []NoDuplicateNames
  /\ [][types' # types =>
          /\ pc = "parse_types" /\ pc' = "parse_types"
          /\ Len(types') = Len(types) + 1
          /\ SubSeq(types', 1, Len(types)) = types
          /\ types'[Len(types')].name \notin TypeNames]_vars
  /\ [][(pc = "parse_types" /\ pc' = "panic") => types' = types]_vars

\* the type pass has met a name that was already stored
C8_Witness ==
  /\ pc = "panic"
  /\ passes = <<>>
  /\ Len(types) = 2

IncludeFiles ==
  {types[i].include_file : i \in Indices(types)}
  \cup {methods[i].include_file : i \in Indices(methods)}

WithIncludeFile(s, h) == SelectSeq(s, LAMBDA x : x.include_file = h)

\* C9: the partitions of split_by_headers are keyed by the include files of the
\* model; each holds exactly the types and the methods of its include file in
\* their order, and the union of the partitions' template_instantiations is the
\* model's: every entry is in some partition, and every partition entry is the
\* model's entry for that name.
C9_SplitUnionIsInput ==
  pc = "split" =>
    /\ DOMAIN headers = IncludeFiles
    /\ \A h \in DOMAIN headers :
         /\ headers[h].types = WithIncludeFile(types, h)
         /\ headers[h].methods = WithIncludeFile(methods, h)
         /\ \A name \in DOMAIN headers[h].template_instantiations :
              /\ name \in DOMAIN template_instantiations
              /\ headers[h].template_instantiations[name] = template_instantiations[name]
    /\ \A name \in DOMAIN template_instantiations :
         \E h \in DOMAIN headers :
           /\ name \in DOMAIN headers[h].template_instantiations
           /\ headers[h].template_instantiations[name] = template_instantiations[name]

C9_Witness ==
  /\ pc = "split"
  /\ Cardinality(DOMAIN headers) >= 2
  /\ DOMAIN template_instantiations # {}
  /\ \E h \in DOMAIN headers : Len(headers[h].methods) >= 2 /\ Len(headers[h].types) >= 1

DeclaredOrder ==
  <<"ensure_explicit_destructors", "generate_methods_with_omitted_args",
    "add_inherited_methods", "find_template_instantiations", "check_integrity">>

ActualOrder ==
  <<"check_integrity", "find_template_instantiations", "ensure_explicit_destructors",
    "generate_methods_with_omitted_args", "add_inherited_methods">>

PostProcessingPasses == SelectSeq(passes, LAMBDA pass : pass \in Range(DeclaredOrder))

IsPrefix(s, t) == Len(s) <= Len(t) /\ SubSeq(t, 1, Len(s)) = s

\* C10 as stated: the five passes run in the declared order, the integrity check
\* last, after the instantiation collection and the three derivation passes.
C10_DeclaredOrder ==
  /\ IsPrefix(PostProcessingPasses, DeclaredOrder)
  /\ Finished => PostProcessingPasses = DeclaredOrder

\* C10 as amended: the five passes run in a fixed order on every run, which is
\* integrity check, instantiation collection (both in run, on the parsed callables),
\* then ensure explicit destructors, omitted arguments, inherited methods (in
\* post_process, on the model run returns).
C10_ActualOrder ==
  /\ IsPrefix(PostProcessingPasses, ActualOrder)
  /\ Finished => PostProcessingPasses = ActualOrder

\* a finished run whose derivation passes have added callables
C10_Witness ==
  /\ pc = "done"
  /\ \E i \in Indices(methods) : IsDerived(methods[i])
  /\ \E i \in Indices(methods) : methods[i].name = <<"n">> /\ Len(methods[i].arguments) = 1
  /\ DOMAIN template_instantiations # {}

DirectBases(name) ==
  LET type_info == find_type(types, name)
  IN IF IsSome(type_info)
     THEN {b.base.name : b \in {x \in Range(Unwrap(type_info).bases) : x.base.tag = "Class"}}
     ELSE {}

\* the classes reachable from the class `name` through at most n base lists
RECURSIVE BasesWithin(_, _)
BasesWithin(name, n) ==
  IF n = 0 THEN {}
  ELSE DirectBases(name) \cup UNION {BasesWithin(d, n - 1) : d \in DirectBases(name)}

Ancestors(name) == BasesWithin(name, Len(types))

IsSynthesizedDestructor(method) == is_destructor(method) /\ IsDerived(method)

\* C11: once ensure_explicit_destructors has run, the destructor it synthesized for a
\* class is virtual if and only if some class reachable from that class through base
\* lists, at any depth, has a destructor with is_virtual = TRUE, also when a class in
\* between has a destructor of its own that is not flagged virtual.
C11_SynthesizedVirtualIffAncestorVirtual ==
  AfterDestructorPass =>
    \A i \in Indices(methods) :
      IsSynthesizedDestructor(methods[i]) =>
        (Unwrap(methods[i].class_membership).is_virtual
         <=> \E j \in Indices(methods) :
               /\ is_destructor(methods[j])
               /\ Unwrap(methods[j].class_membership).is_virtual
               /\ Unwrap(methods[j].class_membership).class_type.name
                    \in Ancestors(Unwrap(methods[i].class_membership).class_type.name))

\* every Class or Enum name of the return type and of the argument types is declared
TypesResolve(method) ==
  (ReferencedNames(method.return_type)
   \cup UNION {ReferencedNames(method.arguments[i].argument_type) :
                 i \in 1..Len(method.arguments)}) \subseteq TypeNames

\* C12: check_integrity returns exactly the callables it was given, in their order,
\* whose return type and argument types refer only to declared Class and Enum names,
\* template arguments and function pointer signatures included.
C12_IntegrityKeepsExactlyResolved ==
  [][pc = "check_integrity" => methods' = SelectSeq(methods, TypesResolve)]_vars

\* h was removed for the undeclared X inside V<X, int> and X (*)(int), although V is
\* declared, and another callable was kept
C12_Witness ==
  /\ pc = "find_template_instantiations"
  /\ "V" \in TypeNames
  /\ Warning("Method is removed", <<"h">>, None) \in Range(log)
  /\ Len(methods) = 1

UnresolvedBases(type_data) ==
  {b \in Range(type_data.bases) : ~(ReferencedNames(b) \subseteq TypeNames)}

\* C13: when a class of the entity store has a base type that names an undeclared
\* type, with or without template arguments, the integrity check and the collection
\* of template instantiations complete without a panic and leave the class in types.
C13_UnresolvedBaseOnlyLogged ==
  [][(/\ pc \in {"check_integrity", "find_template_instantiations"}
      /\ \E t \in Indices(types) : UnresolvedBases(types[t]) # {})
     => (pc' # "panic" /\ types' = types)]_vars

TupleNames(tuple) == UNION {ReferencedNames(tuple[k]) : k \in 1..Len(tuple)}

CallableNames == UNION {SignatureNames(methods[i]) : i \in Indices(methods)}

BaseNames ==
  UNION {ReferencedNames(b) : b \in UNION {Range(types[t].bases) : t \in Indices(types)}}

FieldNames ==
  UNION {ReferencedNames(f.field_type) :
           f \in UNION {Range(types[t].fields) : t \in Indices(types)}}

InstantiationNames ==
  DOMAIN template_instantiations
  \cup UNION {TupleNames(tuple) :
               tuple \in UNION {Range(template_instantiations[n]) :
                                  n \in DOMAIN template_instantiations}}

\* the template argument tuples that occur in a type, at any depth
RECURSIVE TuplesIn(_)
TuplesIn(type) ==
  IF type.base.tag = "Class" /\ IsSome(type.base.template_arguments)
  THEN {Unwrap(type.base.template_arguments)}
       \cup UNION {TuplesIn(Unwrap(type.base.template_arguments)[k]) :
                     k \in 1..Len(Unwrap(type.base.template_arguments))}
  ELSE {}

BaseTuples ==
  UNION {TuplesIn(b) : b \in UNION {Range(types[t].bases) : t \in Indices(types)}}

\* C14 as stated: in the output every Class or Enum name referenced from callable
\* signatures, owning class types, class base lists, class field types and template
\* instantiation tuples is the name of a declaration in types.
C14_ClosedReferentialGraph ==
  Finished =>
    (CallableNames \cup BaseNames \cup FieldNames \cup InstantiationNames)
      \subseteq TypeNames

\* C14 as amended: in the output every Class or Enum name referenced from a callable's
\* signature or owning class type, and every class name that keys
\* template_instantiations, is the name of a declaration in types, and so is every
\* name in an instantiation tuple that was not taken from a base list; base lists
\* and field types are not checked.
C14_ClosedExceptBasesAndFields ==
  Finished =>
    /\ CallableNames \subseteq TypeNames
    /\ DOMAIN template_instantiations \subseteq TypeNames
    /\ \A n \in DOMAIN template_instantiations :
         \A tuple \in Range(template_instantiations[n]) :
           TupleNames(tuple) \subseteq TypeNames \/ tuple \in BaseTuples

\* a finished run with a callable taking W<int>, the tuple <Y> recorded for W from
\* the base list of D, and a field of type Y*, where Y is not declared
C14_Witness ==
  /\ pc = "done"
  /\ "Y" \notin TypeNames
  /\ "Y" \in BaseNames \cap FieldNames \cap InstantiationNames
  /\ \E i \in Indices(methods) : "W" \in SignatureNames(methods[i])
  /\ Len(template_instantiations["W"]) = 2

Count(x, s) == Cardinality({k \in 1..Len(s) : s[k] = x})

DerivedNames(name) == {types[t].name : t \in {k \in Indices(types) : inherits(types[k], name)}}

\* the classes that inherit from `name` through at most n base lists
RECURSIVE DescendantsWithin(_, _)
DescendantsWithin(name, n) ==
  IF n = 0 THEN {}
  ELSE DerivedNames(name)
       \cup UNION {DescendantsWithin(d, n - 1) : d \in DerivedNames(name)}

RECURSIVE SumOver(_, _, _)
SumOver(F(_), S, acc) ==
  IF S = {} THEN acc
  ELSE LET x == CHOOSE y \in S : TRUE IN SumOver(F, S \ {x}, acc + F(x))

\* the number of inheritance paths of at most n steps that lead from `from` to `to`
RECURSIVE PathCount(_, _, _)
PathCount(from, to, n) ==
  IF n = 0 THEN 0
  ELSE SumOver(LAMBDA d : (IF d = to THEN 1 ELSE 0) + PathCount(d, to, n - 1),
               DerivedNames(from), 0)

\* the recursion started from an element of all_type_names has returned
StartingBaseDone ==
  /\ pc = "add_inherited_methods_from"
  /\ visited # <<>>
  /\ todo = <<>> \/ Head(todo).depth = 0

\* C15 as stated: for each starting base, the recursion processes every class derived
\* from it, directly or not, exactly once, and never twice, also when the class is
\* reachable through more than one inheritance path.
C15_EachDerivedOnce ==
  /\ visited # <<>> => \A n \in TypeNames : Count(n, Tail(visited)) <= 1
  /\ StartingBaseDone =>
       \A n \in TypeNames :
         Count(n, Tail(visited)) =
           IF n \in DescendantsWithin(visited[1], Len(types)) THEN 1 ELSE 0

\* C15 as amended: for each starting base, the recursion processes a derived class
\* once for every inheritance path that leads from the starting base to it: exactly
\* once when there is one path, more than once under diamond inheritance.
C15_EachDerivedOncePerPath ==
  /\ visited # <<>> =>
       \A n \in TypeNames :
         Count(n, Tail(visited)) <= PathCount(visited[1], n, Len(visited))
  /\ StartingBaseDone =>
       \A n \in TypeNames :
         Count(n, Tail(visited)) = PathCount(visited[1], n, Len(visited))

\* struct B : A, struct C : A, B: the recursion started from A has returned and has
\* processed B once and C twice
C15_Witness ==
  /\ StartingBaseDone
  /\ visited[1] = "A"
  /\ Count("B", Tail(visited)) = 1
  /\ Count("C", Tail(visited)) = 2

ParsedOk == pc = "parsed" /\ Unwrap(parsed).tag = "Ok"

ParsedType == Unwrap(Unwrap(parsed).value)

\* the const qualification of the type under all pointer and reference levels
RECURSIVE InnermostConst(_)
InnermostConst(type) ==
  IF type.kind \in indirection_kinds THEN InnermostConst(Unwrap(type.pointee))
  ELSE type.is_const

\* C16 as stated: the is_const of a type parsed through pointer or reference levels
\* is the const qualification of the pointee of the outermost level.
C16_ConstOfOutermostPointee ==
  (ParsedOk /\ clang_type.kind \in indirection_kinds)
  => ParsedType.is_const = Unwrap(clang_type.pointee).is_const

\* C16 as amended: the is_const of a type parsed through pointer or reference levels
\* is the const qualification of the innermost base type, the one reached when all
\* the levels are removed; the qualification of the pointers in between is dropped.
C16_ConstOfInnermostBase ==
  (ParsedOk /\ clang_type.kind \in indirection_kinds)
  => ParsedType.is_const = InnermostConst(clang_type)

\* const int ** is parsed as PtrPtr with is_const = TRUE although the pointee of the
\* outermost pointer, const int *, is not const
C16_Witness ==
  /\ ParsedOk
  /\ clang_type.kind = "Pointer"
  /\ ParsedType.indirection = "PtrPtr"
  /\ ParsedType.is_const
  /\ ~Unwrap(clang_type.pointee).is_const

\* the table of the indirection lift: pointee indirection, then outer kind
LiftTable ==
  [None |-> [Pointer |-> "Ptr", LValueReference |-> "Ref", RValueReference |-> "Ref"],
   Ptr |-> [Pointer |-> "PtrPtr", LValueReference |-> "PtrRef", RValueReference |-> "Err"],
   Ref |-> [Pointer |-> "Err", LValueReference |-> "Err", RValueReference |-> "Err"],
   PtrPtr |-> [Pointer |-> "Err", LValueReference |-> "Err", RValueReference |-> "Err"],
   PtrRef |-> [Pointer |-> "Err", LValueReference |-> "Err", RValueReference |-> "Err"]]

ParsedPointee == parse_type(types, Unwrap(clang_type.pointee), None, None)

ExpectedIndirection(kind, pointee) ==
  IF kind = "Pointer" /\ pointee.indirection = "None" /\ pointee.base.tag = "FunctionPointer"
  THEN "None"
  ELSE LiftTable[pointee.indirection][kind]

\* the number of pointer and reference levels of a Type
RECURSIVE Levels(_)
Levels(type) ==
  IF type.kind \in indirection_kinds THEN 1 + Levels(Unwrap(type.pointee)) ELSE 0

\* the result of the lift is the table's entry for the pointee's indirection and the
\* outer kind: an error where the table has none, else the pointee's type with the
\* new indirection (None for a pointer whose pointee has a FunctionPointer base)
LiftFollowsTable ==
  (pc = "parsed" /\ clang_type.kind \in indirection_kinds /\ ParsedPointee.tag = "Ok")
  => LET pointee == Unwrap(ParsedPointee.value)
         expected == ExpectedIndirection(clang_type.kind, pointee)
     IN IF expected = "Err"
        THEN Unwrap(parsed).tag = "Err"
        ELSE /\ Unwrap(parsed).tag = "Ok"
             /\ ParsedType.indirection = expected
             /\ ParsedType.base = pointee.base

\* C17: the lift follows the table for every pointee indirection and every outer
\* kind; hence every result has one of the five indirections, of at most two levels,
\* and a type of three pointer or reference levels is rejected.
C17_IndirectionLiftTable ==
  /\ LiftFollowsTable
  /\ ParsedOk => ParsedType.indirection \in {"None", "Ptr", "Ref", "PtrPtr", "PtrRef"}
  /\ (pc = "parsed" /\ Levels(clang_type) >= 3) => Unwrap(parsed).tag = "Err"

\* the <<nested_level, index>> pairs of the TemplateParameter bases inside a type
RECURSIVE TemplateParametersIn(_)
TemplateParametersIn(type) ==
  LET base == type.base
  IN CASE base.tag = "TemplateParameter" -> {<<base.nested_level, base.index>>}
       [] base.tag = "Class" /\ IsSome(base.template_arguments) ->
            UNION {TemplateParametersIn(Unwrap(base.template_arguments)[i]) :
                     i \in 1..Len(Unwrap(base.template_arguments))}
       [] base.tag = "FunctionPointer" ->
            TemplateParametersIn(Unwrap(base.return_type))
            \cup UNION {TemplateParametersIn(base.arguments[i]) :
                          i \in 1..Len(base.arguments)}
       [] OTHER -> {}

SignatureTemplateParameters(method) ==
  TemplateParametersIn(method.return_type)
  \cup UNION {TemplateParametersIn(method.arguments[i].argument_type) :
                i \in 1..Len(method.arguments)}

\* the template parameter names of the class the method belongs to, if any
ClassTemplateParameters(method) ==
  IF IsSome(method.class_membership)
  THEN LET type_info == find_type(types, Unwrap(class_name(method)))
       IN IF IsSome(type_info) THEN Unwrap(type_info).template_arguments ELSE None
  ELSE None

\* the list a TemplateParameter of the given level refers to in the context of method
ReferredParameters(method, nested_level) ==
  CASE nested_level = 0 /\ IsSome(method.template_arguments) -> method.template_arguments
    [] nested_level = 0 -> ClassTemplateParameters(method)
    [] nested_level = 1 /\ IsSome(method.template_arguments) -> ClassTemplateParameters(method)
    [] OTHER -> None

\* C18: for every TemplateParameter { nested_level, index } in the return type or an
\* argument type of a callable in the model, a template parameter list of that depth
\* exists in the enclosing context and index is a valid position in it: level 0 is the
\* method's own list when the method is a template, otherwise the class's; level 1 is
\* the list of the enclosing class template.
C18_TemplateParametersResolve ==
  \A i \in Indices(methods) :
    \A p \in SignatureTemplateParameters(methods[i]) :
      LET list == ReferredParameters(methods[i], p[1])
      IN IsSome(list) /\ p[2] < Len(Unwrap(list))

\* the callable is named operator followed by a suffix
IsOperatorName(name) == name # <<>> /\ name[1] = "operator"

HasSuffixOf(name, X) ==
  /\ IsSome(info(X).function_name_suffix)
  /\ trim(Tail(name)) = <<Unwrap(info(X).function_name_suffix)>>

\* the declared arguments plus one for a non-static class member
ArityOf(method) ==
  Len(method.arguments)
  + (IF IsSome(method.class_membership) /\ ~Unwrap(method.class_membership).is_static
     THEN 1 ELSE 0)

FitsOperator(method, X) ==
  /\ HasSuffixOf(method.name, X)
  /\ info(X).allows_variadic_arguments \/ info(X).arguments_count = ArityOf(method)

KnownOperators == Range(all_operators)

\* C19: in parse_function, a callable named operator followed by a suffix is assigned a
\* known operator X if and only if the registered suffix of X equals the suffix and X is
\* variadic or its arguments_count equals the number of declared arguments plus one
\* for a non-static class member; a callable whose suffix belongs to a known operator
\* while no known operator fits its arity is not added to the model, and parse_function
\* answers it with an error that parse_methods logs.
C19_OperatorBySuffixAndArity ==
  pc = "parse_methods" =>
    /\ \A i \in Indices(methods) :
         IsOperatorName(methods[i].name) =>
           /\ \A X \in KnownOperators :
                methods[i].operator = Some(Operator(X)) <=> FitsOperator(methods[i], X)
           /\ (\E X \in KnownOperators : HasSuffixOf(methods[i].name, X))
                => \E X \in KnownOperators : FitsOperator(methods[i], X)
    /\ \A entity \in FunctionEntities(types, config.header_name) :
         LET name == qualified_name(entity)
             arity == Len(entity.arguments)
                      + (IF entity.parent.kind = "Class" /\ ~entity.is_static THEN 1 ELSE 0)
         IN ( /\ IsOperatorName(name)
              /\ \E X \in KnownOperators : HasSuffixOf(name, X)
              /\ \A X \in KnownOperators :
                   HasSuffixOf(name, X) =>
                     /\ ~info(X).allows_variadic_arguments
                     /\ info(X).arguments_count # arity )
            => parse_function(types, entity).tag = "Err"

\* parse_methods has seen A::operator+() and dropped it with a warning, and has added
\* the member operator()(int, int), which the variadic FunctionCall accepts
C19_Witness ==
  /\ pc = "parse_methods"
  /\ config.header_name = "operators.h"
  /\ Warning("Failed to parse method", <<"A", "::", "operator", "+">>, None) \in Range(log)
  /\ \E i \in Indices(methods) :
       /\ methods[i].name = <<"operator", "()">>
       /\ methods[i].operator = Some(Operator("FunctionCall"))
       /\ ArityOf(methods[i]) = 3

\* the function entity is a conversion operator whose target type does not parse
ConversionTargetFails(entity) ==
  LET name == qualified_name(entity)
  IN /\ Len(name) >= 2 /\ name[1] = "operator" /\ name[2] = " "
     /\ parse_unexposed_type(types, None, trim(SubSeq(name, 3, Len(name))),
                             IF entity.parent.kind = "Class" THEN Some(entity.parent)
                             ELSE None,
                             Some(entity)).tag # "Ok"

\* C20: a failure to parse the target type of a conversion operator is a recoverable
\* per-entity error: it is reported as an error value, the callable is dropped, and
\* parse_methods goes on with the remaining entities, so a translation unit that holds
\* such an entity never makes parse_methods abort the run.
C20_ConversionFailureRecoverable ==
  [][(/\ pc = "parse_methods"
      /\ \E entity \in FunctionEntities(types, config.header_name) :
           ConversionTargetFails(entity))
       => pc' \in {"parse_methods", next_pass("parse_methods")}]_vars

\* the semantic parent of the function entity is a class that is not in the type store
OwnerUnknown(entity) ==
  entity.parent.kind = "Class" /\ entity.parent.name \notin TypeNames

\* the warning of parse_methods about a function entity whose owner is unknown
IsUnknownOwnerWarning(w) ==
  /\ w.message = "Failed to parse method"
  /\ \E entity \in FunctionEntities(types, config.header_name) :
       get_full_name(entity) = w.name /\ OwnerUnknown(entity)

RebindFields == {"class_membership", "include_file", "origin_location"}

\* clone differs from base_method at most in the owning class type, the include file
\* and the origin location, which are those of a clone onto the class type1
IsReboundCopy(clone, base_method, type1) ==
  /\ DOMAIN clone = DOMAIN base_method
  /\ \A f \in DOMAIN base_method \ RebindFields : clone[f] = base_method[f]
  /\ IsSome(clone.class_membership) /\ IsSome(base_method.class_membership)
  /\ \A f \in DOMAIN Unwrap(base_method.class_membership) \ {"class_type"} :
       Unwrap(clone.class_membership)[f] = Unwrap(base_method.class_membership)[f]
  /\ Unwrap(clone.class_membership).class_type = default_class_type(type1)
  /\ clone.include_file = type1.include_file
  /\ clone.origin_location = None

\* C22: a method cloned onto derived class D by add_inherited_methods differs from the
\* base-class method it was copied from in exactly three fields: its owning class type
\* is D.default_class_type(), its include_file is D's, and its origin location is
\* absent; every other field is unchanged, and the base-class method itself is left
\* unmodified.
C22_CloneRebindsThreeFields ==
  [][(pc = "add_inherited_methods_from" /\ todo # <<>>) =>
       /\ SubSeq(methods', 1, Len(methods)) = methods
       /\ \A k \in (Len(methods) + 1)..Len(methods') :
            \E t \in Indices(types), j \in Indices(methods) :
              /\ types[t].kind = "Class" /\ NamesBase(types[t], Head(todo).name)
              /\ BoundTo(methods[j], Head(todo).name)
              /\ IsReboundCopy(methods'[k], methods[j], types[t])]_vars

\* A's m(int a), declared in a.h, has been cloned onto B of b.h, and A's m is still there
C22_Witness ==
  /\ pc = "done"
  /\ \E i, k \in Indices(methods) :
       /\ BoundTo(methods[i], "A") /\ methods[i].name = <<"m">>
       /\ methods[i].include_file = "a.h" /\ methods[i].origin_location # None
       /\ Len(methods[i].arguments) = 1
       /\ BoundTo(methods[k], "B") /\ methods[k].include_file = "b.h"
       /\ IsReboundCopy(methods[k], methods[i], types[CHOOSE t \in Indices(types) :
                                                         types[t].name = "B"])

\* the callable was parsed from a conversion function named operator followed by one word
IsConversionToWord(method) ==
  /\ method.origin_location # None
  /\ IsSome(method.operator) /\ Unwrap(method.operator).kind = "Conversion"
  /\ Len(method.name) = 3 /\ method.name[1] = "operator" /\ method.name[2] = " "

OwnParameters(method) ==
  IF IsSome(method.template_arguments) THEN Unwrap(method.template_arguments) ELSE <<>>

ClassParameters(method) ==
  IF IsSome(ClassTemplateParameters(method))
  THEN Unwrap(ClassTemplateParameters(method)) ELSE <<>>

\* the index of the first occurrence of word in the list of names, counted from 0
FirstIndex(names, word) ==
  (CHOOSE k \in 1..Len(names) :
     names[k] = word /\ \A j \in 1..(k - 1) : names[j] # word) - 1

\* C23: in parse_unexposed_type, a text equal to a template parameter name resolves to
\* TemplateParameter { 0, position in the method's list } when the context method has
\* template parameters and the text is one of them; otherwise, when the text is one of
\* the context class's parameter names, to TemplateParameter { 1 if the context method
\* has any template parameters else 0, position in the class's list }.  A name in both
\* lists resolves to the method's parameter.
C23_ParameterNameResolution ==
  \A i \in Indices(methods) :
    IsConversionToWord(methods[i]) =>
      LET word == methods[i].name[3]
          own == OwnParameters(methods[i])
          class == ClassParameters(methods[i])
          target == Unwrap(Unwrap(methods[i].operator).type)
      IN /\ word \in Range(own) =>
              target = Plain(TemplateParameter(0, FirstIndex(own, word)))
         /\ (word \notin Range(own) /\ word \in Range(class)) =>
              target = Plain(TemplateParameter(IF own # <<>> THEN 1 ELSE 0,
                                               FirstIndex(class, word)))

\* the callable pass has added operator U of the member template with parameter S,
\* resolved to the class's parameter at level 1, and operator U of the member template
\* that has a parameter U of its own, resolved to the method's parameter
C23_Witness ==
  /\ pc = "parse_methods"
  /\ \E i, k \in Indices(methods) :
       /\ IsConversionToWord(methods[i]) /\ IsConversionToWord(methods[k])
       /\ methods[i].name[3] = "U" /\ OwnParameters(methods[i]) = <<"S">>
       /\ Unwrap(Unwrap(methods[i].operator).type).base = TemplateParameter(1, 0)
       /\ methods[k].name[3] = "U" /\ OwnParameters(methods[k]) = <<"U">>
       /\ Unwrap(Unwrap(methods[k].operator).type).base = TemplateParameter(0, 0)

\* the path rule or the blacklist rule applies to an entity with this name and path
RuledOut(full_name, path) ==
  \/ path # <<>> /\ \A dir \in config.include_dirs :
                      \E k \in 1..Len(dir) : Len(path) < k \/ path[k] # dir[k]
  \/ IsSome(full_name) /\ Unwrap(full_name) \in config.name_blacklist

\* the entity or one of the entities that enclose it is ruled out
InSkippedSubtree(full_name, path, ancestors) ==
  \/ RuledOut(Some(full_name), path)
  \/ \E k \in 1..Len(ancestors) : RuledOut(ancestors[k].full_name, ancestors[k].path)

SkippedTypeNames ==
  {r.name : r \in {e \in TypeEntities(config.header_name) :
                     InSkippedSubtree(<<e.name>>, type_location(config.header_name, e).path,
                                      type_location(config.header_name, e).ancestors)}}

SkippedFunctions ==
  {e \in FunctionEntities(types, config.header_name) :
     InSkippedSubtree(get_full_name(e), e.path, e.ancestors)}

\* the callable has the name and the owner of the function entity
IsCallableOf(method, entity) ==
  /\ method.name = qualified_name(entity)
  /\ class_name(method) = IF entity.parent.kind = "Class" THEN Some(entity.parent.name)
                          ELSE None

\* C24: in the type pass and in the callable pass an entity is skipped when its presumed
\* include path is not empty and lies under none of the include directories, or when
\* its full name is in the blacklist; an entity without a path is not skipped by the
\* path rule.  Skipping an entity skips its subtree, so no type and no callable nested
\* inside a filtered or blacklisted entity reaches the model.
C24_SkippedSubtreesStayOut ==
  /\ TypeNames \cap SkippedTypeNames = {}
  /\ \A i \in Indices(methods) :
       /\ \A entity \in SkippedFunctions : ~IsCallableOf(methods[i], entity)
       /\ IsSome(methods[i].class_membership)
            => Unwrap(class_name(methods[i])) \notin SkippedTypeNames
  /\ \A k \in 1..Len(log) :
       /\ log[k].message = "Failed to parse type"
            => log[k].name \notin {<<n>> : n \in SkippedTypeNames}
       /\ log[k].message = "Failed to parse method"
            => log[k].name \notin {get_full_name(e) : e \in SkippedFunctions}

\* filtered.h has been ingested to the end: A of inc/a.h, below the translation unit
\* that has no path, is in the store; the enum without a path was visited and then
\* rejected by parse_enum; N::j, next to the blacklisted N::h, and A::m are callables,
\* while S of usr/s.h, K of the blacklist, K::Inner and X::Q stayed out
C24_Witness ==
  /\ pc = "done"
  /\ config.header_name = "filtered.h"
  /\ SkippedTypeNames = {"S", "K", "K::Inner", "X::Q"}
  /\ "A" \in TypeNames
  /\ Warning("Failed to parse type", <<"E">>, None) \in Range(log)
  /\ \E i, k \in Indices(methods) :
       /\ methods[i].name = <<"N", "::", "j">>
       /\ methods[k].name = <<"m">> /\ BoundTo(methods[k], "A")

InPostProcess ==
  pc \in {"ensure_explicit_destructors", "generate_methods_with_omitted_args",
          "add_inherited_methods", "add_inherited_methods_from"}

\* C25: post_process only appends callables: the types list and template_instantiations
\* are left unchanged, and every callable present before a pass is still present after
\* it, unmodified and in the same relative order, ahead of all the callables the pass
\* derives; so no pass alters a callable it cloned.
C25_PostProcessOnlyAppends ==
  [][InPostProcess =>
       /\ types' = types
       /\ template_instantiations' = template_instantiations
       /\ Len(methods') >= Len(methods)
       /\ SubSeq(methods', 1, Len(methods)) = methods
       /\ \A k \in (Len(methods) + 1)..Len(methods') :
            IsDerived(methods'[k])
            \/ \E j \in Indices(methods) :
                 /\ methods[j].origin_location = methods'[k].origin_location
                 /\ methods[j].name = methods'[k].name
                 /\ Len(methods'[k].arguments) < Len(methods[j].arguments)]_vars

\* post_process is over and has appended a destructor, an omitted-argument variant and
\* an inherited method behind the two parsed callables
C25_Witness ==
  /\ pc = "done"
  /\ Len(methods) >= 5
  /\ ~IsDerived(methods[1]) /\ ~IsDerived(methods[2])
  /\ Len(methods[1].arguments) = 3 \/ Len(methods[2].arguments) = 3
  /\ \E i, j, k \in 3..Len(methods) :
       /\ is_destructor(methods[i]) /\ IsDerived(methods[i])
       /\ ~IsDerived(methods[j]) /\ Len(methods[j].arguments) \in {1, 2}
       /\ IsDerived(methods[k]) /\ ~is_destructor(methods[k])

\* a class that is reachable from itself through base lists
OnCycle(name) == name \in DescendantsWithin(name, Len(types))

HasCycle == \E n \in TypeNames : OnCycle(n)

\* a call whose recursion runs into a cycle
ReachesCycle(name) ==
  OnCycle(name) \/ \E d \in DescendantsWithin(name, Len(types)) : OnCycle(d)

Inherited(method) == IsDerived(method) /\ ~is_destructor(method)

InheritedCount == Cardinality({k \in Indices(methods) : Inherited(methods[k])})

\* C26: add_inherited_methods terminates when the base relation between the classes is
\* acyclic, whatever the order of the types list and also under diamond and multiple
\* inheritance, and has then added a bounded number of callables (at most one per
\* class and callable that was there before); when a class is reachable from itself
\* through base lists the pass never returns, because a call that runs into the cycle
\* stays on the call stack.
C26_TerminatesIffAcyclic ==
  /\ (pc = "add_inherited_methods" /\ ~HasCycle) ~> (pc = "done")
  /\ [](pc \in {"done", "split"} =>
          /\ ~HasCycle
          /\ InheritedCount <= Len(types) * (Len(methods) - InheritedCount))
  /\ []((pc = "add_inherited_methods_from" /\ visited # <<>> /\ ReachesCycle(visited[1]))
          => \E k \in Indices(todo) : ReachesCycle(todo[k].name))

\* struct A; struct B : A; struct C : A, B: the pass has returned and C has received
\* an inherited callable although the recursion visited C along two paths
C26_Witness ==
  /\ pc = "done"
  /\ \E t \in Indices(types) : types[t].name = "C" /\ Len(types[t].bases) = 2
  /\ \E k \in Indices(methods) : Inherited(methods[k]) /\ class_name(methods[k]) = Some("C")
  /\ ~HasCycle

InNamespace(entity) == entity.parent.kind = "Namespace"

\* a stored callable whose name carries a namespace prefix
IsNamespaceCallable(method) ==
  /\ ~IsSome(method.class_membership)
  /\ Len(method.name) >= 3 /\ method.name[2] = "::"

\* the signature of the entity is usable: parse_function has no other reason to fail
SignatureParses(entity) ==
  /\ IsSome(entity.return_type)
  /\ ~(entity.kind = "FunctionTemplate" /\ entity.non_type_template_parameter)
  /\ \A i \in 1..Len(entity.arguments) : IsSome(entity.arguments[i].type)
  /\ entity.path # <<>>

\* C27: a function whose semantic parent is a namespace never gets a recognized
\* operator and is never rejected for operator arity: its name carries the namespace
\* prefix when it is tested for the operator prefix, so N::operator+ is stored with
\* no operator whatever its argument count.
C27_NamespaceFunctionsHaveNoOperator ==
  /\ \A i \in Indices(methods) :
       IsNamespaceCallable(methods[i]) => methods[i].operator = None
  /\ pc = "parse_methods" =>
       \A entity \in FunctionEntities(types, config.header_name) :
         InNamespace(entity) =>
           /\ ~IsOperatorName(qualified_name(entity))
           /\ SignatureParses(entity) =>
                /\ parse_function(types, entity).tag = "Ok"
                /\ Unwrap(parse_function(types, entity).value).operator = None

\* N::operator+(A, int) and N::operator+(A) are both in the model, with no operator
C27_Witness ==
  /\ pc \in {"parse_methods", "check_integrity"}
  /\ Len(methods) = 2
  /\ \A i \in Indices(methods) :
       /\ methods[i].name = <<"N", "::", "operator", "+">>
       /\ methods[i].operator = None
  /\ {Len(methods[i].arguments) : i \in Indices(methods)} = {1, 2}

\* the FieldDecl children of the class entity that a stored class was parsed from
DeclaredFields(type1) ==
  UNION {Range(entity.children) : entity \in {e \in ClassEntities : e.name = type1.name}}

\* C28: the visibility recorded for each field of a parsed class equals the
\* accessibility of that field's own declaration (Public, Protected or Private),
\* independently of the accessibility of the enclosing class declaration.
C28_FieldVisibilityIsOwn ==
  config.header_name = "fields.h" =>
    \A t \in Indices(types) :
      \A i \in 1..Len(types[t].fields) :
        \A child \in DeclaredFields(types[t]) :
          child.name = types[t].fields[i].name
            => types[t].fields[i].visibility = child.accessibility

\* name, owning class and argument-type list of a callable
SignatureKey(method) ==
  <<method.name, class_name(method),
    [i \in 1..Len(method.arguments) |-> method.arguments[i].argument_type]>>

NoDuplicateCallables ==
  \A i, j \in Indices(methods) :
    SignatureKey(methods[i]) = SignatureKey(methods[j]) => i = j

\* C29: if no two parsed callables have the same name, owning class and argument-type
\* list, then after post_process no two callables of the model have the same name,
\* owning class and argument-type list: neither the omitted-argument pass nor the
\* repeated visits of the inherited-method pass introduce a duplicate.  The passes only
\* append, so this is: no step of post_process that starts without duplicates ends
\* with one.
C29_PostProcessKeepsCallablesDistinct ==
  [][(InPostProcess /\ NoDuplicateCallables) => NoDuplicateCallables']_vars

==============================================================================
